---- MODULE Spec2Model ----
(***************************************************************************)
(* GitHub repository snapshot refresh of deepwiki-open:                    *)
(*   api/github_repos.py  GitHubReposFetcher (aggregator, category         *)
(*                        fetchers, deduplicator, refresh scheduler) and   *)
(*                        the two background tasks                         *)
(*   api/api.py           the update / refresh request handlers            *)
(*                                                                         *)
(* Seven specifications share the module:                                  *)
(*   Spec     the refresh scheduler: request handlers, background tasks,   *)
(*            the profile store and the clock; runs of one event loop      *)
(*            interleave at their network suspension points                *)
(*   AggSpec  one aggregation run (fetch_user_repositories) request by     *)
(*            request                                                      *)
(*   AggLogSpec  the same run; the request history also keeps the page,    *)
(*            the organization, the repository and the answer              *)
(*   DedupSpec  one call of _deduplicate_repos on a bounded list, and a    *)
(*            second call on the list it returned                          *)
(*   ReadSpec the refresh scheduler together with the snapshot read        *)
(*   LoopSpec the page loop of one category fetcher by the numbers: the    *)
(*            length of its list, the page counter, the requests issued    *)
(*   ItemSpec one category fetcher item by item on two pages of its       *)
(*            listing, with the detail lookups of the items                *)
(***************************************************************************)
EXTENDS Integers, Sequences, FiniteSets, TLC

(* ------------------------------ bounds -------------------------------- *)

\* requests (update triggers, refreshes, direct task starts, snapshot
\* reads) per behaviour
MaxRequests == 2
\* the clock visits the first MaxInstant instants of its grid
MaxInstant == 4
\* GitHub has at most this many non-empty pages of any listing
MaxPages == 1

\* items of a page where a fetcher is followed item by item
MaxItems == 2
\* length of the lists handed to one call of the deduplicator
MaxLen == 3

(* ----------------------------- time ----------------------------------- *)

\* github_repos.py:687  24 * 3600
ThrottleSeconds == 24 * 3600

\* Offset of the process's local zone from UTC, in seconds: datetime.now()
\* is a naive local wall-clock time.
LocalUtcOffset == 2 * 3600

\* The instants (epoch seconds) the clock visits: second 1, then one second
\* before, at and one second after every whole throttle period.
Instant(g) == ((g + 1) \div 3) * ThrottleSeconds + ((g + 1) % 3) - 1
Instants == {Instant(g) : g \in 1..MaxInstant}

\* A stored timestamp: an ISO-8601 string, kept as its wall-clock seconds
\* and its zone designator ("naive": none, "utc": Z or +00:00), or null.
NULL == [zone |-> "null", wall |-> 0]

\* datetime.now().isoformat(): naive local wall-clock time
IsoFormatNow(t) == [zone |-> "naive", wall |-> t + LocalUtcOffset]

\* datetime.fromisoformat(s.replace('Z', '+00:00')).timestamp(): an aware
\* value is taken as UTC, a naive one is read in the local zone.
FromIsoTimestamp(s) == IF s.zone = "naive" THEN s.wall - LocalUtcOffset ELSE s.wall

ThrottledLE(t, last_updated) == t - FromIsoTimestamp(last_updated) <= ThrottleSeconds

\* github_repos.py:687  now - last_updated < 24 * 3600
Throttled(t, last_updated) == t - FromIsoTimestamp(last_updated) < ThrottleSeconds

(* --------------------------- repositories ----------------------------- *)

\* the GitHub username every request of the model asks about
Username == "octocat"

\* JSON null where GitHub sends a number
None == -1

\* A repository as GitHub sends it in a listing or a detail response.
\*   source  the embedded upstream ("" when the record carries none)
\*   detail  what GET /repos/{full_name} answers if asked: "fail" (non-200
\*           or transport error), "nosource", or the upstream's full_name
\*   ok      FALSE when a key the fetchers index directly is missing
Raw(fn, own, st, upd, fork, source, detail, ok) ==
    [full_name |-> fn, owner |-> own, stars |-> st, updated_at |-> upd,
     fork |-> fork, source |-> source, detail |-> detail, ok |-> ok]

\* The record a fetcher appends to its bucket. relationship is "" where the
\* dict has no such key; name, description, html_url, language and forks are
\* copied through and left out here.
Rec(raw, isOwner, isCollab, rel) ==
    [full_name |-> raw.full_name, owner |-> raw.owner, stars |-> raw.stars,
     updated_at |-> raw.updated_at, is_owner |-> isOwner,
     is_collaborator |-> isCollab, is_fork |-> raw.fork, relationship |-> rel]

RawA == Raw("octocat/a", "octocat", 1, 2, FALSE, "", "nosource", TRUE)
RawB == Raw("octocat/b", "octocat", 0, 1, FALSE, "", "nosource", TRUE)
RawX == Raw("up/x", "up", 2, 1, FALSE, "", "nosource", TRUE)
RawS == Raw("star/s", "star", 5, 1, FALSE, "", "nosource", TRUE)

\* github_repos.py:182-195
OwnedRec(raw) == Rec(raw, TRUE, raw.fork, "")

ContributedRecCollaborator(raw) ==
    Rec(raw, raw.owner = Username, raw.owner # Username,
        IF raw.owner = Username THEN "owner" ELSE "collaborator")

\* github_repos.py:309-324
ContributedRec(raw) ==
    Rec(raw, raw.owner = Username, raw.owner # Username,
        IF raw.owner = Username THEN "owner" ELSE "contributor")



RecA == OwnedRec(RawA)
RecB == OwnedRec(RawB)
RecX == ContributedRec(RawX)
\* github_repos.py:577-594  a starred repository of another owner
RecS == Rec(RawS, FALSE, FALSE, "starred")

\* A JSON column holding a list or null
JNull == [isNull |-> TRUE, v |-> <<>>]
JList(s) == [isNull |-> FALSE, v |-> s]

\* only None counts, an empty list does not
FalsyNoneOnly(j) == j.isNull

\* Python truthiness of a list-or-None value
Falsy(j) == j.isNull \/ Len(j.v) = 0

\* What fetch_user_repositories can hand back to the scheduler: three
\* deduplicated buckets, or three empty lists.
EmptyResult == [owned |-> <<>>, collab |-> <<>>, other |-> <<>>]
AggResults ==
    { EmptyResult,
      [owned |-> <<RecA, RecB>>, collab |-> <<RecX>>, other |-> <<RecS>>] }

\* no run has written yet
NoWrite == [any |-> FALSE, result |-> EmptyResult]

OnExceptionPartial(owned, collab, other) == [owned |-> owned, collab |-> collab, other |-> other]

\* github_repos.py:132-135  whatever the lists hold
OnException(owned, collab, other) == EmptyResult

(* ------------------------------ state --------------------------------- *)

VARIABLES
    now,         \* the clock, epoch seconds
    configured,  \* SUPABASE_URL and SUPABASE_SERVICE_ROLE_KEY are set
    profiles,    \* the profiles table, by user id
    runs,        \* the scheduler runs started so far
    nreq,        \* requests handled so far
    last,        \* history: the latest step of a request or run, what it saw
                 \* and what it decided
    lastFetch,   \* history: when a Regular run last began a fetch, Never if
                 \* none did since the latest applied forced clear
    lastWrite,   \* history: when the Regular run that last wrote the profile
                 \* had begun its fetch, Never if none did since that clear
    written      \* history: the three buckets the aggregation handed to the
                 \* run whose write was stored last

schedVars ==
    <<now, configured, profiles, runs, nreq, last, lastFetch, lastWrite, written>>

\* One call of fetch_user_repositories, request by request.
VARIABLES
    aggPc,                      \* where the call is: "idle", the fetcher that
                                \* runs, "dedupe", "returned"
    tokenArg,                   \* the github_token argument, "" when absent
    envToken,                   \* GITHUB_TOKEN of the environment, "" when unset
    github_token,               \* the token after resolution
    owned_repositories,         \* the three lists the fetchers append to
    collaborator_repositories,
    other_repositories,
    page,                       \* page counter of the running fetcher
    base_repos_added,           \* upstreams the running fetcher has added
    contributed_repos,          \* repositories the events fetcher has seen
    orgs,                       \* organizations still to list
    requests,                   \* history: the GitHub requests, in order
    logging,                    \* whether the history keeps the parameters
                                \* and the answer of each request
    invoked,                    \* history: the fetchers called so far
    raised,                     \* history: the latest exception inside a
                                \* fetcher, and that fetcher's list then
    owned403,                   \* history: the first owned page answered 403
    escaped,                    \* history: where an exception reached the
                                \* handler of fetch_user_repositories from
    result                      \* the returned tuple

aggVars == <<aggPc, tokenArg, envToken, github_token, owned_repositories,
             collaborator_repositories, other_repositories, page, base_repos_added,
             contributed_repos, orgs, requests, logging, invoked, raised, owned403,
             escaped, result>>

\* One call of _deduplicate_repos, and a second call on what it returned.
VARIABLES
    dedupPc,       \* "idle", "call", "returned", "raised", "twice"
    xs0,           \* history: the list as the caller passed it
    xs,            \* the caller's list object (the parameter repositories)
    unique_repos,  \* what the call returned
    twice          \* what the second call returned

dedupVars == <<dedupPc, xs0, xs, unique_repos, twice>>

\* The page loop of one category fetcher, by the numbers: how long the list
\* is, which page comes next.
VARIABLES
    loopPc,    \* "idle", "orgs" (before GET /user/orgs), "loop", "done"
    loopCat,   \* the fetcher whose loop runs
    loopLen,   \* what the while condition measures: len(repositories), for
               \* the contributed fetcher len(contributed_repos)
    loopPage,  \* the variable page
    loopReqs,  \* history: listing requests the loop has issued
    loopOrgs,  \* how many organizations GET /user/orgs listed
    loopOrg    \* which of them the loop is listing, 0 before the first

loopVars == <<loopPc, loopCat, loopLen, loopPage, loopReqs, loopOrgs, loopOrg>>

\* One invocation of a category fetcher on two pages of items: what the for
\* loop over a page does with every item.
VARIABLES
    itemPc,     \* "idle", "first", "second", "done"
    itemCat,    \* the fetcher
    itemPages,  \* the bodies of its first and its second page
    itemSt      \* its list, its already-seen set, its requests

itemVars == <<itemPc, itemCat, itemPages, itemSt>>

vars == <<schedVars, aggVars, dedupVars, loopVars, itemVars>>

\* no fetcher is followed item by item
NoItems ==
    /\ itemPc = "idle"
    /\ itemCat = "none"
    /\ itemPages = <<>>
    /\ itemSt = [bucket |-> <<>>, seen |-> {}, reqs |-> <<>>, how |-> "continue"]

\* no page loop is followed by the numbers
NoLoop ==
    /\ loopPc = "idle"
    /\ loopCat = "none"
    /\ loopLen = 0
    /\ loopPage = 1
    /\ loopReqs = 0
    /\ loopOrgs = 0
    /\ loopOrg = 0

\* no separate call of _deduplicate_repos is under way
NoDeduplication ==
    /\ dedupPc = "idle"
    /\ xs0 = <<>>
    /\ xs = <<>>
    /\ unique_repos = <<>>
    /\ twice = <<>>

\* no call of fetch_user_repositories is under way
NoAggregation ==
    /\ aggPc = "idle"
    /\ tokenArg = ""
    /\ github_token = ""
    /\ owned_repositories = <<>>
    /\ collaborator_repositories = <<>>
    /\ other_repositories = <<>>
    /\ page = 1
    /\ base_repos_added = {}
    /\ contributed_repos = {}
    /\ orgs = <<>>
    /\ requests = <<>>
    /\ invoked = {}
    /\ raised = [cat |-> "", kept |-> <<>>]
    /\ owned403 = FALSE
    /\ escaped = "none"
    /\ result = EmptyResult

\* The user ids of the requests; whether the id has a row in profiles is
\* fixed by the initial state.
Users == {"u1"}

NoRow ==
    [exists |-> FALSE, github_username |-> "", github_repos |-> JNull,
     github_repos_updated_at |-> NULL, github_collaborator_repos |-> JNull,
     github_collaborator_repos_updated_at |-> NULL]

Row(repos, ts) ==
    [exists |-> TRUE, github_username |-> "", github_repos |-> repos,
     github_repos_updated_at |-> ts, github_collaborator_repos |-> JList(<<>>),
     github_collaborator_repos_updated_at |-> ts]

\* Outcome of one call on the store client. A select answers or raises; an
\* update answers, answers with an error object (response.error set, nothing
\* written), or raises.
ReadOutcomes == {"ok", "raise"}
WriteOutcomes == {"ok", "error", "raise"}

Never == -1

\* github_repos.py:746, 750  return [], [], []
NoRepos == [owned |-> JList(<<>>), collab |-> JList(<<>>), other |-> JList(<<>>)]

\* One step of the history. ev: "tick" (time passed), "task" (an Initial
\* task was created directly), "trigger" (the update trigger chose a task),
\* "start" (a run's first stretch), "return" (a run's write and return),
\* "reject" (a request answered 500 before any run). agg is how the
\* aggregation of the run ended, w how its profile write ended, hadRepos
\* whether github_repos held a record when the run came to write, changed
\* whether the request and its run, now returned, have altered a field of the
\* stored profile, answer what the request handler that ended with the step
\* answered its caller ("none": no handler ended), read what a snapshot read
\* returned, raced whether the run found, when it came to write, the stamp of
\* a write made after it had begun its fetch.
Step(ev, id, kind, origin) ==
    [ev |-> ev, run |-> id, kind |-> kind, origin |-> origin, at |-> now,
     forced |-> FALSE, seen |-> "none", seenTs |-> NULL, seenFalsy |-> FALSE,
     seenNull |-> FALSE, hadTs |-> NULL, d |-> "none",
     prevFetch |-> Never, prevWrite |-> Never,
     result |-> EmptyResult, stored |-> FALSE, agg |-> "none", w |-> "none",
     hadRepos |-> FALSE, changed |-> FALSE, answer |-> "none", read |-> NoRepos,
     raced |-> FALSE]

\* what a profile read showed: o is the outcome of the store call
Saw(step, conf, o, profile) ==
    LET row == conf /\ o = "ok" /\ profile.exists
    IN [step EXCEPT !.seen = IF ~conf \/ o = "raise" THEN "none"
                             ELSE IF row THEN "row" ELSE "norow",
                    !.seenTs = IF row THEN profile.github_repos_updated_at ELSE NULL,
                    !.seenFalsy = row /\ Falsy(profile.github_repos),
                    !.seenNull = row /\ profile.github_repos.isNull]

(* ------------------------- scheduler decisions ------------------------ *)

IsInitialFetchTsOnly(profile) == profile.github_repos_updated_at = NULL

\* api.py:719  never updated OR empty (or null) repos array
IsInitialFetch(profile) ==
    \/ profile.github_repos_updated_at = NULL
    \/ Falsy(profile.github_repos)

\* a missing row counts as never fetched
TriggerKindNoRowInitial(o, profile) ==
    IF o = "ok" /\ (~profile.exists \/ IsInitialFetch(profile)) THEN "initial" ELSE "regular"

\* api.py:715-727  which background task the update trigger starts; o is the
\* outcome of the profile read (a raising read starts no task at all)
TriggerKind(o, profile) ==
    IF o = "ok" /\ profile.exists /\ IsInitialFetch(profile) THEN "initial" ELSE "regular"

InitialDecisionThrottled(conf, o, profile, t) ==
    IF ~conf \/ o = "raise" THEN "fail"
    ELSE IF ~(o = "ok" /\ profile.exists) THEN "fail"
    ELSE IF profile.github_repos_updated_at # NULL
            /\ Throttled(t, profile.github_repos_updated_at) THEN "skip"
    ELSE "fetch"

InitialDecisionNoCheck(conf, o, profile, t) ==
    IF ~conf \/ o = "raise" THEN "fail" ELSE "fetch"

\* github_repos.py:619-632  Initial: connection check, existence check, then
\* the fetch, with no look at the stored timestamp
InitialDecision(conf, o, profile, t) ==
    IF ~conf \/ o = "raise" THEN "fail"
    ELSE IF ~(o = "ok" /\ profile.exists) THEN "fail"
    ELSE "fetch"

\* github_repos.py:677-693  Regular: connection check, timestamp read, the
\* throttle; a read that returns no row skips the throttle
RegularDecision(conf, o, profile, t) ==
    IF ~conf \/ o = "raise" THEN "fail"
    ELSE IF o = "ok" /\ profile.exists
            /\ profile.github_repos_updated_at # NULL
            /\ Throttled(t, profile.github_repos_updated_at) THEN "skip"
    ELSE "fetch"

Decision(kind, conf, o, profile, t) ==
    IF kind = "initial" THEN InitialDecision(conf, o, profile, t)
    ELSE RegularDecision(conf, o, profile, t)

\* A run as created by a request: nothing fetched, nothing written. changed
\* tells, while the run is under way, whether its request has altered a field
\* of the stored profile; calls counts the calls of the scheduler method.
NewRun(u, kind, origin) ==
    [user |-> u, kind |-> kind, origin |-> origin, pc |-> "created",
     ret |-> "pending", fetched |-> FALSE, startAt |-> Never,
     wrote |-> "none", changed |-> FALSE, calls |-> 0]

TaskAfterRetry(ret) == IF ret = "false" THEN "created" ELSE "done"

\* github_repos.py:760-767, 774-781  what the background task does once the
\* scheduler method has returned (or raised): it logs and ends
TaskAfter(ret) == "done"

\* the value a run returns from its first stretch, if it returns there
EarlyReturn(d) ==
    CASE d = "fail" -> "false"
      [] d = "skip" -> "true"
      [] OTHER -> "pending"

\* The run record after its first, uninterrupted stretch: from the entry of
\* the scheduler method to its first GitHub request (d = "fetch") or to its
\* early return.
Started(run, d, t) ==
    [run EXCEPT !.pc = IF d = "fetch" THEN "fetching" ELSE TaskAfter(EarlyReturn(d)),
                !.ret = EarlyReturn(d),
                !.calls = @ + 1,
                !.fetched = (d = "fetch"),
                !.startAt = IF d = "fetch" THEN t ELSE Never,
                !.changed = IF d = "fetch" THEN @ ELSE FALSE]

\* prevFetch, prevWrite: the history as the run's first stretch found it
StartStep(id, run, forced, conf, o, profile, d, prevFetch, prevWrite) ==
    [Saw(Step("start", id, run.kind, run.origin), conf, o, profile)
        EXCEPT !.forced = forced, !.d = d,
               !.changed = IF d = "fetch" THEN FALSE ELSE run.changed,
               !.prevFetch = prevFetch, !.prevWrite = prevWrite]

TriggerAnswerFailed(started) == "500"

\* api.py:730, 732-734  the answer of the update trigger
TriggerAnswer(started) == IF started THEN "started" ELSE "500"

RefreshAnswerStarted(ret) == "started"

\* api.py:778-789  the answer of the refresh handler, which has awaited the
\* scheduler method: its value decides between "completed" and HTTP 500
RefreshAnswer(ret) ==
    CASE ret = "true" -> "completed"
      [] ret = "false" -> "500"
      [] OTHER -> "none"

(* ------------------------------ actions ------------------------------- *)

\* api.py:696-733  POST /api/user/github-repos/update
UpdateTrigger(u) ==
    /\ nreq < MaxRequests
    /\ nreq' = nreq + 1
    /\ \E o \in ReadOutcomes :
          IF ~configured \/ o = "raise"
          THEN \* create_client or the read raised: HTTP 500, no task
               /\ runs' = runs
               /\ last' = [Step("reject", 0, "none", "trigger")
                              EXCEPT !.answer = TriggerAnswer(FALSE)]
          ELSE LET kind == TriggerKind(o, profiles[u])
               IN /\ runs' = Append(runs, NewRun(u, kind, "trigger"))
                  /\ last' = [Saw(Step("trigger", Len(runs) + 1, kind, "trigger"),
                                  configured, o, profiles[u])
                                 EXCEPT !.answer = TriggerAnswer(TRUE)]
    /\ UNCHANGED <<now, configured, profiles, lastFetch, lastWrite, written>>
    /\ UNCHANGED <<aggVars, dedupVars, loopVars, itemVars>>

\* debug_auth_pipeline.py:85 and any other direct caller of
\* update_user_repos_initial_background: the Initial task for any user id
InitialTask(u) ==
    /\ nreq < MaxRequests
    /\ nreq' = nreq + 1
    /\ runs' = Append(runs, NewRun(u, "initial", "direct"))
    /\ last' = Step("task", Len(runs) + 1, "initial", "direct")
    /\ UNCHANGED <<now, configured, profiles, lastFetch, lastWrite, written>>
    /\ UNCHANGED <<aggVars, dedupVars, loopVars, itemVars>>

\* github_repos.py:755-781  a background task gets the event loop and runs
\* its scheduler method up to the first GitHub request (or the early return)
TaskStart(id) ==
    /\ id \in 1..Len(runs)
    /\ runs[id].pc = "created"
    /\ \E o \in ReadOutcomes :
          LET u == runs[id].user
              d == Decision(runs[id].kind, configured, o, profiles[u], now)
          IN /\ runs' = [runs EXCEPT ![id] = Started(@, d, now)]
             /\ last' = StartStep(id, runs[id], FALSE, configured, o, profiles[u], d,
                                  lastFetch, lastWrite)
             /\ lastFetch' = IF d = "fetch" /\ runs[id].kind = "regular"
                             THEN now ELSE lastFetch
    /\ UNCHANGED <<now, configured, profiles, nreq, lastWrite, written>>
    /\ UNCHANGED <<aggVars, dedupVars, loopVars, itemVars>>

ClearedNot(profile, c) == profile

ClearedBoth(profile, c) ==
    IF c = "ok" /\ profile.exists
    THEN [profile EXCEPT !.github_repos_updated_at = NULL,
                         !.github_collaborator_repos_updated_at = NULL]
    ELSE profile

\* api.py:767-775  the forced clear of github_repos_updated_at
Cleared(profile, c) ==
    IF c = "ok" /\ profile.exists
    THEN [profile EXCEPT !.github_repos_updated_at = NULL]
    ELSE profile

\* api.py:754-789  POST /api/user/github-repos/refresh: the optional clear and
\* the start of the Regular run happen with no suspension point between them
Refresh(u, force) ==
    /\ nreq < MaxRequests
    /\ nreq' = nreq + 1
    /\ \E c \in (IF force THEN WriteOutcomes ELSE {"ok"}), o \in ReadOutcomes :
          IF force /\ (~configured \/ c = "raise")
          THEN \* create_client or the clearing update raised: HTTP 500
               /\ runs' = runs
               /\ profiles' = profiles
               /\ lastFetch' = lastFetch
               /\ lastWrite' = lastWrite
               /\ last' = [Step("reject", 0, "none", "refresh") EXCEPT !.answer = "500"]
          ELSE LET after == IF force THEN Cleared(profiles[u], c) ELSE profiles[u]
                   cleared == force /\ c = "ok"
                   applied == cleared /\ profiles[u].exists
                   prevFetch == IF applied THEN Never ELSE lastFetch
                   prevWrite == IF applied THEN Never ELSE lastWrite
                   d == RegularDecision(configured, o, after, now)
                   run == [NewRun(u, "regular", "refresh")
                              EXCEPT !.changed = after # profiles[u]]
               IN /\ profiles' = [profiles EXCEPT ![u] = after]
                  /\ runs' = Append(runs, Started(run, d, now))
                  /\ last' = [StartStep(Len(runs) + 1, run, cleared, configured, o, after,
                                        d, prevFetch, prevWrite)
                                 EXCEPT !.hadTs = profiles[u].github_repos_updated_at,
                                        !.answer = RefreshAnswer(EarlyReturn(d))]
                  /\ lastFetch' = IF d = "fetch" THEN now ELSE prevFetch
                  /\ lastWrite' = prevWrite
    /\ UNCHANGED <<now, configured, written>>
    /\ UNCHANGED <<aggVars, dedupVars, loopVars, itemVars>>

WrittenKeepsStamp(profile, res, t, w) ==
    IF w = "ok" /\ profile.exists
    THEN [profile EXCEPT !.github_repos = JList(res.owned),
                         !.github_collaborator_repos = JList(res.collab),
                         !.github_username = Username]
    ELSE profile

WrittenKeepsNonEmpty(profile, res, t, w) ==
    IF w = "ok" /\ profile.exists
    THEN [profile EXCEPT !.github_repos = IF res.owned = <<>> THEN @ ELSE JList(res.owned),
                         !.github_repos_updated_at = IsoFormatNow(t),
                         !.github_collaborator_repos =
                             IF res.collab = <<>> THEN @ ELSE JList(res.collab),
                         !.github_collaborator_repos_updated_at = IsoFormatNow(t),
                         !.github_username = Username]
    ELSE profile

WrittenOwnedOnly(profile, res, t, w) ==
    IF w = "ok" /\ profile.exists
    THEN [profile EXCEPT !.github_repos = JList(res.owned),
                         !.github_repos_updated_at = IsoFormatNow(t),
                         !.github_username = Username]
    ELSE profile

\* github_repos.py:635-645, 695-704  update_data and the profile write
Written(profile, res, t, w) ==
    IF w = "ok" /\ profile.exists
    THEN [profile EXCEPT !.github_repos = JList(res.owned),
                         !.github_repos_updated_at = IsoFormatNow(t),
                         !.github_collaborator_repos = JList(res.collab),
                         !.github_collaborator_repos_updated_at = IsoFormatNow(t),
                         !.github_username = Username]
    ELSE profile

\* How fetch_user_repositories ended: it returned its deduplicated lists, or
\* an exception reached its handler (github_repos.py:132-135) and it returned
\* three empty lists. The caller sees three lists either way.
AggOutcomes == {"returned", "raised"}

\* how the profile write ended, given the outcome of the store call
WriteEnd(w, profile) ==
    IF w = "ok" THEN (IF profile.exists THEN "ok" ELSE "norow") ELSE w

ReturnValueIgnoresError(w) == IF w = "raise" THEN "false" ELSE "true"

\* github_repos.py:645-663, 704-721  the value the run returns after the
\* write: False when response.error is set or the call raised, else True
ReturnValue(w) == IF w = "ok" THEN "true" ELSE "false"

\* github_repos.py:632-663, 693-721  the aggregation returns; the run writes
\* the profile and returns, with no suspension point in between
FetchReturn(id) ==
    /\ id \in 1..Len(runs)
    /\ runs[id].pc = "fetching"
    /\ \E a \in AggOutcomes, w \in WriteOutcomes :
       \E res \in (IF a = "raised" THEN {OnException(<<>>, <<>>, <<>>)}
                   ELSE IF w = "ok" THEN AggResults ELSE {EmptyResult}) :
          LET u == runs[id].user
              stored == w = "ok" /\ profiles[u].exists
          IN /\ profiles' = [profiles EXCEPT ![u] = Written(@, res, now, w)]
             /\ runs' = [runs EXCEPT ![id].pc = TaskAfter(ReturnValue(w)),
                                     ![id].ret = ReturnValue(w),
                                     ![id].startAt = Never,
                                     ![id].changed = FALSE,
                                     ![id].wrote = IF stored THEN "ok" ELSE "failed"]
             /\ last' = [Step("return", id, runs[id].kind, runs[id].origin)
                            EXCEPT !.result = IF stored THEN res ELSE EmptyResult,
                                   !.stored = stored,
                                   !.agg = a,
                                   !.w = WriteEnd(w, profiles[u]),
                                   !.changed = runs[id].changed
                                       \/ Written(profiles[u], res, now, w) # profiles[u],
                                   !.hadRepos = ~Falsy(profiles[u].github_repos),
                                   !.raced =
                                       /\ profiles[u].github_repos_updated_at.zone = "naive"
                                       /\ FromIsoTimestamp(profiles[u].github_repos_updated_at)
                                             > runs[id].startAt,
                                   !.d = ReturnValue(w),
                                   !.answer = IF runs[id].origin = "refresh"
                                              THEN RefreshAnswer(ReturnValue(w))
                                              ELSE "none"]
             /\ lastWrite' = IF stored /\ runs[id].kind = "regular"
                             THEN runs[id].startAt
                             ELSE lastWrite
             /\ written' = IF stored THEN [any |-> TRUE, result |-> res] ELSE written
    /\ UNCHANGED <<now, configured, nreq, lastFetch>>
    /\ UNCHANGED <<aggVars, dedupVars, loopVars, itemVars>>

\* github_repos.py:735-750  what get_user_github_repos returns: the two list
\* columns of the row as stored (None for a null column) and an empty third
\* list; three empty lists when there is no row or the store call raised.
GetRepos(conf, o, profile) ==
    IF ~conf \/ o = "raise" THEN NoRepos
    ELSE IF profile.exists
    THEN [owned |-> profile.github_repos, collab |-> profile.github_collaborator_repos,
          other |-> JList(<<>>)]
    ELSE NoRepos

\* api.py:735-752, github_repos.py:724-750  GET /api/user/github-repos/{id}:
\* the snapshot read
GetUserGithubRepos(u) ==
    /\ nreq < MaxRequests
    /\ nreq' = nreq + 1
    /\ \E o \in ReadOutcomes :
          last' = [Saw(Step("read", 0, "none", "read"), configured, o, profiles[u])
                     EXCEPT !.read = GetRepos(configured, o, profiles[u])]
    /\ UNCHANGED <<now, configured, profiles, runs, lastFetch, lastWrite, written>>
    /\ UNCHANGED <<aggVars, dedupVars, loopVars, itemVars>>

\* time passes, as long as a request can still come or a run is under way
Tick ==
    /\ nreq < MaxRequests \/ \E id \in 1..Len(runs) : runs[id].pc # "done"
    /\ \E t \in Instants :
          /\ t > now
          /\ \A t2 \in Instants : t2 > now => t <= t2
          /\ now' = t
    /\ last' = Step("tick", 0, "none", "none")
    /\ UNCHANGED <<configured, profiles, runs, nreq, lastFetch, lastWrite, written>>
    /\ UNCHANGED <<aggVars, dedupVars, loopVars, itemVars>>

\* The profile as first found: no row; a new user's row (nothing fetched
\* yet); a row refreshed by an earlier process, its list column null or
\* filled.
InitialRows ==
    { NoRow,
      Row(JList(<<>>), NULL),
      Row(JNull, [zone |-> "utc", wall |-> 0]),
      Row(JList(<<RecA>>), [zone |-> "utc", wall |-> 0]) }

Init ==
    /\ now = 1
    /\ configured \in BOOLEAN
    /\ profiles \in [Users -> InitialRows]
    /\ runs = <<>>
    /\ nreq = 0
    /\ last = Step("none", 0, "none", "none")
    /\ lastFetch = Never
    /\ lastWrite = Never
    /\ written = NoWrite
    /\ NoAggregation
    /\ envToken = ""
    /\ logging = FALSE
    /\ NoDeduplication
    /\ NoLoop
    /\ NoItems

Next ==
    \/ \E u \in Users : UpdateTrigger(u)
    \/ \E u \in Users : InitialTask(u)
    \/ \E u \in Users, force \in BOOLEAN : Refresh(u, force)
    \/ \E id \in 1..MaxRequests : TaskStart(id)
    \/ \E id \in 1..MaxRequests : FetchReturn(id)
    \/ Tick

Spec == Init /\ [][Next]_vars

\* The scheduler together with the snapshot read, which may come between
\* any two steps.
ReadNext ==
    \/ Next
    \/ \E u \in Users : GetUserGithubRepos(u)

ReadSpec == Init /\ [][ReadNext]_vars

(* ------------- the aggregation run: fetch_user_repositories ----------- *)

NoToken == ""

\* github_repos.py:69-70  the token passed in, else GITHUB_TOKEN
ResolveToken(arg, env) == IF arg # NoToken THEN arg ELSE env

\* item and page limits of the category fetchers
OwnedLimit == 100
ContributedLimit == 50
ContributedPageLimit == 3
CollaboratorLimit == 50
CollaboratorPageLimit == 5
OrgLimit == 10
OrganizationLimit == 100
OrganizationPageLimit == 3
OtherLimit == 30
OtherPageLimit == 3

\* the collaborator and the organization loop count pages only
ContinueOwnRecordsOnly(cat, len, pg) ==
    CASE cat = "owned" -> len < OwnedLimit
      [] cat = "contributed" -> len < ContributedLimit /\ pg <= ContributedPageLimit
      [] cat = "collaborator" -> pg <= CollaboratorPageLimit
      [] cat = "organization" -> pg <= OrganizationPageLimit
      [] OTHER -> len < OtherLimit /\ pg <= OtherPageLimit

ContinueNoPageLimit(cat, len, pg) ==
    CASE cat = "owned" -> len < OwnedLimit
      [] cat = "contributed" -> len < ContributedLimit
      [] cat = "collaborator" -> len < CollaboratorLimit
      [] cat = "organization" -> len < OrganizationLimit
      [] OTHER -> len < OtherLimit

\* the while conditions, github_repos.py:148, 268, 387, 497, 548: len is
\* what the condition measures, pg the variable page
Continue(cat, len, pg) ==
    CASE cat = "owned" -> len < OwnedLimit
      [] cat = "contributed" -> len < ContributedLimit /\ pg <= ContributedPageLimit
      [] cat = "collaborator" -> len < CollaboratorLimit /\ pg <= CollaboratorPageLimit
      [] cat = "organization" -> len < OrganizationLimit /\ pg <= OrganizationPageLimit
      [] OTHER -> len < OtherLimit /\ pg <= OtherPageLimit

\* github_repos.py:492  orgs[:10]
FirstOrgs(n) == IF n < OrgLimit THEN n ELSE OrgLimit

\* the category fetchers in the order fetch_user_repositories calls them
Fetchers == <<"owned", "contributed", "collaborator", "organization", "other">>

Order(cat) == CHOOSE i \in 1..Len(Fetchers) : Fetchers[i] = cat

\* the fetchers a run with this token calls
Due(token) ==
    IF token # NoToken THEN {Fetchers[i] : i \in 1..Len(Fetchers)}
    ELSE {"owned", "contributed"}

NextFetcherNoTokenCheck(cat, token) ==
    IF cat = "other" THEN "dedupe" ELSE Fetchers[Order(cat) + 1]

\* github_repos.py:98-120  what follows the call of fetcher cat
NextFetcher(cat, token) ==
    CASE cat = "owned" -> "contributed"
      [] cat = "contributed" -> IF token # NoToken THEN "collaborator" ELSE "dedupe"
      [] cat = "collaborator" -> "organization"
      [] cat = "organization" -> "other"
      [] OTHER -> "dedupe"

(* what GitHub sends *)

RawN == Raw("octocat/n", "octocat", None, 1, FALSE, "", "nosource", TRUE)
RawF == Raw("octocat/x", "octocat", 0, 3, TRUE, "up/x", "up/x", TRUE)
RawG == Raw("octocat/x2", "octocat", 0, 2, TRUE, "", "up/x", TRUE)
RawBad == Raw("octocat/bad", "octocat", 0, 0, FALSE, "", "nosource", FALSE)
RawM == Raw("up/n", "up", None, 1, FALSE, "", "nosource", TRUE)
RawC == Raw("team/c", "team", 1, 1, FALSE, "", "nosource", TRUE)
RawCF == Raw("team/x", "team", 0, 1, TRUE, "", "up/x", TRUE)
RawCG == Raw("team/x2", "team", 0, 1, TRUE, "up/x", "up/x", TRUE)
RawO == Raw("acme/o", "acme", 3, 1, FALSE, "", "nosource", TRUE)

\* the repository a fork's source names
Upstream(name) == CHOOSE r \in {RawX} : r.full_name = name

\* an entry of the public events feed; repo is what GET /repos/{name} says
Event(type, hasRepo, repo) == [type |-> type, hasRepo |-> hasRepo, repo |-> repo]

ContributionEventsWithWatch ==
    {"PushEvent", "PullRequestEvent", "IssuesEvent", "CreateEvent", "WatchEvent"}

\* github_repos.py:298
ContributionEvents == {"PushEvent", "PullRequestEvent", "IssuesEvent", "CreateEvent"}

OwnedPages == { <<RawA>>, <<RawA, RawBad>>, <<RawF, RawG>>, <<RawA, RawN>> }

EventPages ==
    { <<Event("PushEvent", TRUE, RawA), Event("WatchEvent", TRUE, RawS)>>,
      <<Event("PullRequestEvent", TRUE, RawX), Event("IssuesEvent", TRUE, RawX),
        Event("CreateEvent", TRUE, RawM)>>,
      <<Event("PushEvent", TRUE, RawC), Event("PushEvent", TRUE, RawBad)>> }

CollaboratorPages == { <<RawC>>, <<RawCF, RawCG, RawBad>> }

OrgLists == { <<>>, <<"acme">>, <<"acme", "beta">> }

OrgRepoPages == { <<RawO, RawA>>, <<RawBad>> }

StarredPages == { <<RawS, RawA>>, <<RawX, RawBad>> }

Pages(cat) ==
    CASE cat = "owned" -> OwnedPages
      [] cat = "contributed" -> EventPages
      [] cat = "collaborator" -> CollaboratorPages
      [] cat = "organization" -> OrgRepoPages
      [] OTHER -> StarredPages

\* The answer to a listing request: a transport or decoding error (err), or
\* a status with a body. GitHub has MaxPages pages of any listing; beyond
\* them the body is the empty list.
Response(err, status, body) == [err |-> err, status |-> status, body |-> body]

StatusCodes == {200, 403, 404}

Responses(bodies, pg) ==
    {Response(FALSE, 200, b) : b \in (IF pg > MaxPages THEN {<<>>} ELSE bodies \cup {<<>>})}
    \cup {Response(FALSE, s, <<>>) : s \in StatusCodes \ {200}}
    \cup {Response(TRUE, 0, <<>>)}

(* the category fetchers *)

\* how a listing request was answered: with a page of items ("ok"), or
\* with none ("stop": a status other than 200, an empty page, or a transport
\* error)
Answer(resp) ==
    IF resp.err \/ resp.status # 200 \/ resp.body = <<>> THEN "stop" ELSE "ok"

\* A request as the history records it: the fetcher and what is asked for
\* ("page", "orgs", "detail"); with logging also the page parameter and the
\* organization of a listing, the repository of a detail lookup, and the
\* answer.
Req(cat, kind) ==
    [cat |-> cat, kind |-> kind, page |-> 0, org |-> "", name |-> "", ans |-> "ok"]

\* github_repos.py:149-161, 498-506  the request of the current page
PageReq(cat, resp) ==
    IF logging
    THEN [Req(cat, "page") EXCEPT
             !.page = page,
             !.org = IF cat = "organization" THEN Head(orgs) ELSE "",
             !.ans = Answer(resp)]
    ELSE Req(cat, "page")

NextPageSame(pg) == pg

\* github_repos.py:254, 328, 468, 535, 599  page += 1
NextPage(pg) == pg + 1

\* A fetcher in the middle of its loop: the list it appends to, its set of
\* names already handled, the requests issued so far, and how the current
\* iteration ends: "continue", "break", "raise" (into the fetcher's except
\* clause) or "propagate" (out of the fetcher).
Loop(bucket, seen, reqs) == [bucket |-> bucket, seen |-> seen, reqs |-> reqs, how |-> "continue"]

AddBaseAlways(st, name, rel) ==
    [st EXCEPT !.seen = @ \cup {name},
               !.bucket = Append(@, Rec(Upstream(name), FALSE, TRUE, rel))]

\* github_repos.py:203-222, 232-251, 446-465  the upstream of a fork, once
AddBase(st, name, rel) ==
    IF name \in st.seen THEN st
    ELSE [st EXCEPT !.seen = @ \cup {name},
                    !.bucket = Append(@, Rec(Upstream(name), FALSE, TRUE, rel))]

\* github_repos.py:333-358  a detail lookup never raises
Lookup(st, cat, name) ==
    [st EXCEPT !.reqs = Append(@, [Req(cat, "detail") EXCEPT
                                      !.name = IF logging THEN name ELSE ""])]

HasSource(detail) == detail \notin {"fail", "nosource"}

\* github_repos.py:179-251
OwnedItem(st, r) ==
    IF ~r.ok THEN [st EXCEPT !.how = "raise"]
    ELSE LET s1 == [st EXCEPT !.bucket = Append(@, OwnedRec(r))]
         IN IF r.fork /\ r.source # ""
            THEN AddBase(s1, r.source, "base_of_fork")
            ELSE IF r.fork
            THEN IF HasSource(r.detail)
                 THEN AddBase(Lookup(s1, "owned", r.full_name), r.detail, "base_of_fork")
                 ELSE Lookup(s1, "owned", r.full_name)
            ELSE s1

\* github_repos.py:297-325
ContributedItem(st, ev) ==
    IF ~(ev.hasRepo /\ ev.type \in ContributionEvents) THEN st
    ELSE IF ev.repo.full_name \in st.seen THEN st
    ELSE LET s1 == Lookup([st EXCEPT !.seen = @ \cup {ev.repo.full_name}], "contributed",
                         ev.repo.full_name)
         IN IF ev.repo.detail = "fail" THEN s1
            ELSE IF ~ev.repo.ok THEN [s1 EXCEPT !.how = "raise"]
            ELSE [s1 EXCEPT !.bucket = Append(@, ContributedRec(ev.repo))]

\* github_repos.py:418-433
CollaboratorRec(raw) ==
    Rec(raw, raw.owner = Username, TRUE,
        IF raw.owner = Username THEN "owner" ELSE "collaborator")

\* github_repos.py:417-465
CollaboratorItem(st, r) ==
    IF ~r.ok THEN [st EXCEPT !.how = "raise"]
    ELSE LET s1 == [st EXCEPT !.bucket = Append(@, CollaboratorRec(r))]
         IN IF r.fork
            THEN IF HasSource(r.detail)
                 THEN AddBase(Lookup(s1, "collaborator", r.full_name), r.detail,
                              "base_of_collaborator_fork")
                 ELSE Lookup(s1, "collaborator", r.full_name)
            ELSE s1

\* github_repos.py:515-532
OrganizationItem(st, r) ==
    IF ~r.ok THEN [st EXCEPT !.how = "raise"]
    ELSE IF r.owner # Username
    THEN [st EXCEPT !.bucket = Append(@, Rec(r, FALSE, TRUE, "organization_member"))]
    ELSE st

OtherItemUnfiltered(st, r) ==
    IF ~r.ok THEN [st EXCEPT !.how = "raise"]
    ELSE [st EXCEPT !.bucket = Append(@, Rec(r, FALSE, FALSE, "starred"))]

\* github_repos.py:577-596
OtherItem(st, r) ==
    IF ~r.ok THEN [st EXCEPT !.how = "raise"]
    ELSE IF r.owner # Username
    THEN [st EXCEPT !.bucket = Append(@, Rec(r, FALSE, FALSE, "starred"))]
    ELSE st

ItemOwnedAsCollaborator(cat, st, x) ==
    CASE cat \in {"owned", "collaborator"} -> CollaboratorItem(st, x)
      [] cat = "contributed" -> ContributedItem(st, x)
      [] cat = "organization" -> OrganizationItem(st, x)
      [] OTHER -> OtherItem(st, x)

Item(cat, st, x) ==
    CASE cat = "owned" -> OwnedItem(st, x)
      [] cat = "contributed" -> ContributedItem(st, x)
      [] cat = "collaborator" -> CollaboratorItem(st, x)
      [] cat = "organization" -> OrganizationItem(st, x)
      [] OTHER -> OtherItem(st, x)

\* the for loop over a page, from item i on; an exception ends it
RECURSIVE Items(_, _, _, _)
Items(cat, st, body, i) ==
    IF i > Len(body) \/ st.how = "raise" THEN st
    ELSE Items(cat, Item(cat, st, body[i]), body, i + 1)

OnStatusRateLimitError(status) ==
    IF status = 200 THEN "continue" ELSE IF status = 403 THEN "propagate" ELSE "break"

\* github_repos.py:164-170, 280-286, 402-408, 507-509, 562-568
OnStatus(status) == IF status = 200 THEN "continue" ELSE "break"

\* one iteration of a page loop: the request, the response, the page's items
Iteration(cat, st, resp) ==
    LET s1 == [st EXCEPT !.reqs = Append(@, PageReq(cat, resp))]
    IN IF resp.err THEN [s1 EXCEPT !.how = "raise"]
       ELSE IF OnStatus(resp.status) # "continue" THEN [s1 EXCEPT !.how = OnStatus(resp.status)]
       ELSE IF resp.body = <<>> THEN [s1 EXCEPT !.how = "break"]
       ELSE Items(cat, s1, resp.body, 1)

OnFetcherExceptionReraise(cat) == "propagate"

\* github_repos.py:256-257, 330-331, 470-471, 537-538, 601-602
OnFetcherException(cat) == "raise"

(* _deduplicate_repos *)

KeyBeforeAscending(a, b) ==
    \/ a.stars < b.stars
    \/ a.stars = b.stars /\ a.updated_at < b.updated_at

\* key of a is sorted before key of b: (stars, updated_at), descending
KeyBefore(a, b) ==
    \/ a.stars > b.stars
    \/ a.stars = b.stars /\ a.updated_at > b.updated_at

\* list.sort compares a null with a number: TypeError
SortRaises(repositories) ==
    \E i, j \in 1..Len(repositories) :
        repositories[i].stars = None /\ repositories[j].stars # None

InsertBeforeEquals(r, sorted) ==
    LET before == {i \in 1..Len(sorted) : KeyBefore(sorted[i], r)}
    IN SubSeq(sorted, 1, Cardinality(before)) \o <<r>>
       \o SubSeq(sorted, Cardinality(before) + 1, Len(sorted))

\* r goes behind every element that is not sorted after it (the sort is stable)
RECURSIVE Insert(_, _)
Insert(r, sorted) ==
    IF sorted = <<>> THEN <<r>>
    ELSE IF KeyBefore(r, Head(sorted)) THEN <<r>> \o sorted
    ELSE <<Head(sorted)>> \o Insert(r, Tail(sorted))

RECURSIVE Sorted(_)
Sorted(repositories) ==
    IF repositories = <<>> THEN <<>>
    ELSE Insert(repositories[Len(repositories)],
                Sorted(SubSeq(repositories, 1, Len(repositories) - 1)))

UniqueKeepsAll(repositories, seen) == repositories

\* keeps the last record of a name instead of the first
RECURSIVE UniqueKeepsLast(_, _)
UniqueKeepsLast(repositories, seen) ==
    IF repositories = <<>> THEN <<>>
    ELSE IF \E i \in 2..Len(repositories) :
               repositories[i].full_name = Head(repositories).full_name
    THEN UniqueKeepsLast(Tail(repositories), seen)
    ELSE <<Head(repositories)>> \o UniqueKeepsLast(Tail(repositories), seen)

RECURSIVE Unique(_, _)
Unique(repositories, seen) ==
    IF repositories = <<>> THEN <<>>
    ELSE IF Head(repositories).full_name \in seen THEN Unique(Tail(repositories), seen)
    ELSE <<Head(repositories)>>
         \o Unique(Tail(repositories), seen \cup {Head(repositories).full_name})

\* returns the best record only
DeduplicateFirstOnly(repositories) ==
    IF repositories = <<>> THEN <<>> ELSE <<Head(Unique(Sorted(repositories), {}))>>

\* github_repos.py:360-374
Deduplicate(repositories) == Unique(Sorted(repositories), {})

(* the run *)

Bucket(cat) ==
    CASE cat = "owned" -> owned_repositories
      [] cat = "other" -> other_repositories
      [] OTHER -> collaborator_repositories

SetBucket(cat, b) ==
    /\ owned_repositories' = IF cat = "owned" THEN b ELSE owned_repositories
    /\ other_repositories' = IF cat = "other" THEN b ELSE other_repositories
    /\ collaborator_repositories' =
          IF cat \in {"contributed", "collaborator", "organization"} THEN b
          ELSE collaborator_repositories

\* the set a fetcher keeps of the names it has handled
Seen(cat) == IF cat = "contributed" THEN contributed_repos ELSE base_repos_added

\* the while condition of fetcher cat, on the lists of the run
LoopCondition(cat) ==
    Continue(cat,
             IF cat = "contributed" THEN Cardinality(contributed_repos) ELSE Len(Bucket(cat)),
             page)

\* Fetcher cat is over: it returned (how is "break") or an exception reached
\* its except clause ("raise") or left it ("propagate"). The next fetcher is
\* called, or the exception reaches the handler of fetch_user_repositories.
EndFetcher(cat, how, bucket) ==
    LET out == IF how = "raise" THEN OnFetcherException(cat) ELSE how
        next == NextFetcher(cat, github_token)
    IN /\ raised' = IF how = "raise" THEN [cat |-> cat, kept |-> bucket] ELSE raised
       /\ IF out = "propagate"
          THEN /\ aggPc' = "returned"
               /\ escaped' = "fetcher"
               /\ result' = OnException(
                               IF cat = "owned" THEN bucket ELSE owned_repositories,
                               IF cat \in {"owned", "other"} THEN collaborator_repositories
                               ELSE bucket,
                               IF cat = "other" THEN bucket ELSE other_repositories)
               /\ invoked' = invoked
          ELSE /\ aggPc' = next
               /\ invoked' = IF next = "dedupe" THEN invoked ELSE invoked \cup {next}
               /\ UNCHANGED <<escaped, result>>
       /\ page' = 1
       /\ base_repos_added' = {}
       /\ contributed_repos' = {}
       /\ orgs' = <<>>

\* The loop of an organization is over; the next organization, if any.
EndOrganization(bucket) ==
    IF Len(orgs) > 1
    THEN /\ orgs' = Tail(orgs)
         /\ page' = 1
         /\ UNCHANGED <<aggPc, invoked, raised, escaped, result, base_repos_added,
                        contributed_repos>>
    ELSE EndFetcher("organization", "break", bucket)

\* One step of the page loop of fetcher cat: the loop condition, and if it
\* holds the request of the page and what the fetcher does with the answer.
PageStep(cat) ==
    /\ IF ~LoopCondition(cat)
       THEN /\ SetBucket(cat, Bucket(cat))
            /\ UNCHANGED <<requests, owned403>>
            /\ IF cat = "organization" THEN EndOrganization(Bucket(cat))
               ELSE EndFetcher(cat, "break", Bucket(cat))
       ELSE \E resp \in Responses(Pages(cat), page) :
               LET st == Iteration(cat, Loop(Bucket(cat), Seen(cat), requests), resp)
               IN /\ SetBucket(cat, st.bucket)
                  /\ requests' = st.reqs
                  /\ owned403' = (owned403 \/ (cat = "owned" /\ page = 1
                                                /\ ~resp.err /\ resp.status = 403))
                  /\ CASE st.how = "continue" ->
                             /\ page' = NextPage(page)
                             /\ base_repos_added' =
                                   IF cat = "contributed" THEN base_repos_added ELSE st.seen
                             /\ contributed_repos' =
                                   IF cat = "contributed" THEN st.seen ELSE contributed_repos
                             /\ UNCHANGED <<aggPc, invoked, raised, escaped, result, orgs>>
                       [] st.how = "break" /\ cat = "organization" -> EndOrganization(st.bucket)
                       [] OTHER -> EndFetcher(cat, st.how, st.bucket)
    /\ UNCHANGED <<tokenArg, envToken, github_token, logging>>
    /\ UNCHANGED <<schedVars, dedupVars, loopVars, itemVars>>

\* github_repos.py:54-98  the call: the token, the session
FetchUserRepositories(arg) ==
    /\ aggPc = "idle"
    /\ tokenArg' = arg
    /\ github_token' = ResolveToken(arg, envToken)
    /\ \E sessionOk \in BOOLEAN :
          IF sessionOk
          THEN /\ aggPc' = "owned"
               /\ invoked' = {"owned"}
               /\ UNCHANGED <<escaped, result>>
          ELSE /\ aggPc' = "returned"
               /\ escaped' = "setup"
               /\ result' = OnException(owned_repositories, collaborator_repositories,
                                        other_repositories)
               /\ invoked' = invoked
    /\ UNCHANGED <<envToken, logging, owned_repositories, collaborator_repositories,
                   other_repositories, page, base_repos_added, contributed_repos, orgs,
                   requests, raised, owned403>>
    /\ UNCHANGED <<schedVars, dedupVars, loopVars, itemVars>>

\* github_repos.py:137-257
FetchOwnedRepos == aggPc = "owned" /\ PageStep("owned")

\* github_repos.py:259-331
FetchContributedRepos == aggPc = "contributed" /\ PageStep("contributed")

\* github_repos.py:376-471
FetchCollaboratorRepos == aggPc = "collaborator" /\ PageStep("collaborator")

\* github_repos.py:478-492  GET /user/orgs
FetchOrganizations ==
    /\ aggPc = "organization"
    /\ \E err \in BOOLEAN, status \in StatusCodes, list \in OrgLists :
          /\ err => status = 200 /\ list = <<>>
          /\ status # 200 => list = <<>>
          /\ requests' = Append(requests, [Req("organization", "orgs") EXCEPT
                             !.ans = IF logging THEN Answer(Response(err, status, list))
                                     ELSE "ok"])
          /\ LET first == SubSeq(list, 1, FirstOrgs(Len(list)))
             IN IF err
                THEN EndFetcher("organization", "raise", collaborator_repositories)
                ELSE IF OnStatus(status) # "continue"
                THEN EndFetcher("organization", OnStatus(status), collaborator_repositories)
                ELSE IF first = <<>>
                THEN EndFetcher("organization", "break", collaborator_repositories)
                ELSE /\ aggPc' = "org_repos"
                     /\ orgs' = first
                     /\ page' = 1
                     /\ UNCHANGED <<invoked, raised, escaped, result, base_repos_added,
                                    contributed_repos>>
    /\ UNCHANGED <<tokenArg, envToken, github_token, logging, owned_repositories,
                   collaborator_repositories, other_repositories, owned403>>
    /\ UNCHANGED <<schedVars, dedupVars, loopVars, itemVars>>

\* github_repos.py:492-535  the pages of one organization
FetchOrganizationRepos == aggPc = "org_repos" /\ PageStep("organization")

\* github_repos.py:540-602
FetchOtherRepos == aggPc = "other" /\ PageStep("other")

\* github_repos.py:122-135  the three lists are deduplicated one after the
\* other and returned, unless a sort raises. The variables keep the lists as
\* the fetchers left them.
DeduplicateAndReturn ==
    /\ aggPc = "dedupe"
    /\ aggPc' = "returned"
    /\ IF SortRaises(owned_repositories)
       THEN /\ escaped' = "dedupe"
            /\ result' = OnException(owned_repositories, collaborator_repositories,
                                     other_repositories)
       ELSE IF SortRaises(collaborator_repositories)
       THEN /\ escaped' = "dedupe"
            /\ result' = OnException(Deduplicate(owned_repositories),
                                     collaborator_repositories, other_repositories)
       ELSE IF SortRaises(other_repositories)
       THEN /\ escaped' = "dedupe"
            /\ result' = OnException(Deduplicate(owned_repositories),
                                     Deduplicate(collaborator_repositories),
                                     other_repositories)
       ELSE /\ escaped' = escaped
            /\ result' = [owned |-> Deduplicate(owned_repositories),
                          collab |-> Deduplicate(collaborator_repositories),
                          other |-> Deduplicate(other_repositories)]
    /\ UNCHANGED <<tokenArg, envToken, github_token, logging, owned_repositories,
                   collaborator_repositories, other_repositories, page, base_repos_added,
                   contributed_repos, orgs, requests, invoked, raised, owned403>>
    /\ UNCHANGED <<schedVars, dedupVars, loopVars, itemVars>>

AggStart ==
    /\ now = 1
    /\ configured = TRUE
    /\ profiles = [u \in Users |-> NoRow]
    /\ runs = <<>>
    /\ nreq = 0
    /\ last = Step("none", 0, "none", "none")
    /\ lastFetch = Never
    /\ lastWrite = Never
    /\ written = NoWrite
    /\ NoAggregation
    /\ envToken \in {NoToken, "env-token"}
    /\ NoDeduplication
    /\ NoLoop
    /\ NoItems

AggInit == AggStart /\ logging = FALSE

AggNext ==
    \/ \E arg \in {NoToken, "arg-token"} : FetchUserRepositories(arg)
    \/ FetchOwnedRepos
    \/ FetchContributedRepos
    \/ FetchCollaboratorRepos
    \/ FetchOrganizations
    \/ FetchOrganizationRepos
    \/ FetchOtherRepos
    \/ DeduplicateAndReturn

AggSpec == AggInit /\ [][AggNext]_vars

\* the same run with the full request history
AggLogInit == AggStart /\ logging = TRUE

AggLogSpec == AggLogInit /\ [][AggNext]_vars

(* ---------------- one call of _deduplicate_repos ---------------------- *)

\* no request has come and no run exists
NoScheduler ==
    /\ now = 1
    /\ configured = TRUE
    /\ profiles = [u \in Users |-> NoRow]
    /\ runs = <<>>
    /\ nreq = 0
    /\ last = Step("none", 0, "none", "none")
    /\ lastFetch = Never
    /\ lastWrite = Never
    /\ written = NoWrite

\* the records the lists of a call are made of: two names, stars null, 0 or
\* 1, two update times; and for each name a record of another fetcher with
\* the stars and the update time of one of them
DedupRecords ==
    {OwnedRec(Raw(n, Username, st, upd, FALSE, "", "nosource", TRUE)) :
        n \in {"octocat/a", "octocat/b"}, st \in {None, 0, 1}, upd \in {1, 2}}
    \cup {CollaboratorRec(Raw(n, Username, 1, 1, FALSE, "", "nosource", TRUE)) :
             n \in {"octocat/a", "octocat/b"}}

\* the lists of at most MaxLen records
DedupInputs == UNION {[1..n -> DedupRecords] : n \in 0..MaxLen}

\* the orders a list can be left in
Reorderings(list) ==
    {[i \in 1..Len(list) |-> list[p[i]]] : p \in Permutations(1..Len(list))}

\* github_repos.py:360-374  one call: the sort is in place, so the caller's
\* list comes back sorted; a sort that raises leaves it in an unspecified order
DeduplicateRepos ==
    /\ dedupPc = "call"
    /\ IF SortRaises(xs)
       THEN /\ dedupPc' = "raised"
            /\ xs' \in Reorderings(xs)
            /\ unique_repos' = unique_repos
       ELSE /\ dedupPc' = "returned"
            /\ xs' = Sorted(xs)
            /\ unique_repos' = Deduplicate(xs)
    /\ UNCHANGED <<xs0, twice>>
    /\ UNCHANGED <<schedVars, aggVars, loopVars, itemVars>>

\* the list returned is deduplicated again
DeduplicateAgain ==
    /\ dedupPc = "returned"
    /\ dedupPc' = "twice"
    /\ unique_repos' = Sorted(unique_repos)
    /\ twice' = Deduplicate(unique_repos)
    /\ UNCHANGED <<xs0, xs>>
    /\ UNCHANGED <<schedVars, aggVars, loopVars, itemVars>>

DedupInit ==
    /\ NoScheduler
    /\ NoAggregation
    /\ envToken = NoToken
    /\ logging = FALSE
    /\ NoLoop
    /\ NoItems
    /\ dedupPc = "call"
    /\ xs0 \in DedupInputs
    /\ xs = xs0
    /\ unique_repos = <<>>
    /\ twice = <<>>

DedupNext == DeduplicateRepos \/ DeduplicateAgain

DedupSpec == DedupInit /\ [][DedupNext]_vars

(* ------------- the page loops of the fetchers, by the numbers --------- *)

\* github_repos.py:155, 271, 393, 502, 553  'per_page': 30
PerPage == 30

\* how many items a page of a listing holds: none, one, a full page
PageSizes == {0, 1, PerPage}

\* how many organizations GET /user/orgs lists
OrgCounts == {0, 1, OrgLimit, OrgLimit + 1}

\* How long the list is when the fetcher is called. The owned and the other
\* list are empty (github_repos.py:80-82, 98, 120), the contributed fetcher
\* starts with an empty set of names (266); the collaborator and the
\* organization fetcher append to the list the fetchers before them filled.
EntryLengths(cat) ==
    IF cat \in {"collaborator", "organization"}
    THEN {0, CollaboratorLimit - 1, OrganizationLimit - 1}
    ELSE {0}

\* a page of the owned listing may add no record
GrowthMayBeNone(cat, n) ==
    IF cat = "owned" THEN {0, n, n + 1}
    ELSE IF cat = "collaborator" THEN {n, n + 1} ELSE {0, n}

\* By how much a page of n items can make the measured length grow:
\*   owned, collaborator  every item is appended, and the upstream of a fork
\*                        may follow it (182, 208, 237; 419, 451)
\*   contributed          the names not seen before (300-301)
\*   organization, other  the items of other owners (517, 580)
Growth(cat, n) ==
    IF cat \in {"owned", "collaborator"} THEN {n, n + 1} ELSE {0, n}

\* the loop of the fetcher is over; the organization fetcher goes on to its
\* next organization, if one of the first ten is left
LoopEnd ==
    IF loopCat = "organization" /\ loopOrg < FirstOrgs(loopOrgs)
    THEN /\ loopOrg' = loopOrg + 1
         /\ loopPage' = 1
         /\ loopReqs' = 0
         /\ UNCHANGED <<loopPc, loopCat, loopLen, loopOrgs>>
    ELSE /\ loopPc' = "done"
         /\ UNCHANGED <<loopCat, loopLen, loopPage, loopReqs, loopOrgs, loopOrg>>

\* github_repos.py:480-492  GET /user/orgs and the slice of its answer
LoopOrgs ==
    /\ loopPc = "orgs"
    /\ \E status \in StatusCodes, n \in OrgCounts :
          IF OnStatus(status) # "continue" \/ n = 0
          THEN /\ loopPc' = "done"
               /\ UNCHANGED <<loopOrgs, loopOrg>>
          ELSE /\ loopPc' = "loop"
               /\ loopOrgs' = n
               /\ loopOrg' = 1
    /\ UNCHANGED <<loopCat, loopLen, loopPage, loopReqs>>
    /\ UNCHANGED <<schedVars, aggVars, dedupVars, itemVars>>

\* One pass through the while statement of the fetcher: the condition, and
\* if it holds the request of the page, the status check, the empty-page
\* check, the items of the page and page += 1.
LoopStep ==
    /\ loopPc = "loop"
    /\ IF ~Continue(loopCat, loopLen, loopPage)
       THEN LoopEnd
       ELSE \E status \in StatusCodes, n \in PageSizes :
               IF OnStatus(status) # "continue" \/ n = 0
               THEN IF loopCat = "organization" /\ loopOrg < FirstOrgs(loopOrgs)
                    THEN LoopEnd
                    ELSE /\ loopPc' = "done"
                         /\ loopReqs' = loopReqs + 1
                         /\ UNCHANGED <<loopCat, loopLen, loopPage, loopOrgs, loopOrg>>
               ELSE \E g \in Growth(loopCat, n) :
                       /\ loopLen' = loopLen + g
                       /\ loopPage' = loopPage + 1
                       /\ loopReqs' = loopReqs + 1
                       /\ UNCHANGED <<loopPc, loopCat, loopOrgs, loopOrg>>
    /\ UNCHANGED <<schedVars, aggVars, dedupVars, itemVars>>

LoopInit ==
    /\ NoScheduler
    /\ NoAggregation
    /\ envToken = NoToken
    /\ logging = FALSE
    /\ NoDeduplication
    /\ NoItems
    /\ loopCat \in {Fetchers[i] : i \in 1..Len(Fetchers)}
    /\ loopPc = IF loopCat = "organization" THEN "orgs" ELSE "loop"
    /\ loopLen \in EntryLengths(loopCat)
    /\ loopPage = 1
    /\ loopReqs = 0
    /\ loopOrgs = 0
    /\ loopOrg = 0

LoopNext == LoopOrgs \/ LoopStep

LoopSpec == LoopInit /\ [][LoopNext]_vars

(* --------------- one fetcher, item by item, on two pages --------------- *)

\* forks whose detail lookup fails, or answers without a source
RawH == Raw("octocat/h", "octocat", 0, 1, TRUE, "", "fail", TRUE)
RawI == Raw("octocat/i", "octocat", 0, 1, TRUE, "", "nosource", TRUE)
RawCH == Raw("team/h", "team", 0, 1, TRUE, "", "fail", TRUE)

\* a repository whose GET /repos/{name} fails
RawL == Raw("up/l", "up", 1, 1, FALSE, "", "fail", TRUE)

\* what a page of fetcher cat may hold
ItemsOf(cat) ==
    CASE cat = "owned" -> {RawA, RawF, RawG, RawH, RawI}
      [] cat = "contributed" ->
            {Event("PushEvent", TRUE, RawA), Event("PullRequestEvent", TRUE, RawX),
             Event("IssuesEvent", TRUE, RawX), Event("CreateEvent", TRUE, RawL),
             Event("WatchEvent", TRUE, RawS), Event("PushEvent", FALSE, RawS)}
      [] cat = "collaborator" -> {RawC, RawCF, RawCG, RawCH}
      [] cat = "organization" -> {RawO, RawA, RawBad}
      [] OTHER -> {RawS, RawX, RawA, RawBad}

\* the page bodies of up to MaxItems items
Bodies(cat) == UNION {[1..n -> ItemsOf(cat)] : n \in 0..MaxItems}

ItemInit ==
    /\ NoScheduler
    /\ NoAggregation
    /\ envToken = NoToken
    /\ logging = TRUE
    /\ NoDeduplication
    /\ NoLoop
    /\ itemPc = "first"
    /\ itemCat \in {Fetchers[i] : i \in 1..Len(Fetchers)}
    /\ itemPages \in Bodies(itemCat) \X Bodies(itemCat)
    /\ itemSt = Loop(<<>>, {}, <<>>)

\* the for loop over page n of the fetcher; an exception ends the fetcher
ItemsOfPage(n) ==
    /\ itemSt' = Items(itemCat, itemSt, itemPages[n], 1)
    /\ itemPc' = IF itemSt'.how = "raise" \/ n = 2 THEN "done" ELSE "second"
    /\ UNCHANGED <<itemCat, itemPages>>
    /\ UNCHANGED <<schedVars, aggVars, dedupVars, loopVars>>

ItemsOfFirstPage == itemPc = "first" /\ ItemsOfPage(1)

ItemsOfSecondPage == itemPc = "second" /\ ItemsOfPage(2)

ItemNext == ItemsOfFirstPage \/ ItemsOfSecondPage

ItemSpec == ItemInit /\ [][ItemNext]_vars

(* ---------------------- the refresh scheduler's claims ---------------- *)

\* the latest step is the first stretch of a run of this kind
StartOf(kind) == last.ev = "start" /\ last.kind = kind

\* No run writes the profile without having fetched, and a run that returned
\* early stays returned.
NoWriteWithoutFetch ==
    \A id \in 1..Len(runs) :
        ~runs[id].fetched => runs[id].wrote = "none" /\ runs[id].pc \in {"created", "done"}

\* C1: a Regular run that reads a set github_repos_updated_at less than 24
\* hours old returns success without fetching and without writing; with 24
\* hours or more elapsed (exactly 24 hours included) it begins the fetch.
C1_ThrottleBoundary ==
    /\ NoWriteWithoutFetch
    /\ (StartOf("regular") /\ last.seen = "row" /\ last.seenTs # NULL) =>
          IF last.at - FromIsoTimestamp(last.seenTs) < ThrottleSeconds
          THEN /\ last.d = "skip"
               /\ runs[last.run].pc = "done"
               /\ runs[last.run].ret = "true"
               /\ ~runs[last.run].fetched
               /\ runs[last.run].wrote = "none"
          ELSE /\ last.d = "fetch"
               /\ runs[last.run].fetched

\* a Regular run read a timestamp 24 hours minus one second old and skipped
C1_Witness ==
    /\ StartOf("regular")
    /\ last.seen = "row"
    /\ last.seenTs # NULL
    /\ last.at - FromIsoTimestamp(last.seenTs) = ThrottleSeconds - 1
    /\ last.d = "skip"
    /\ runs[last.run].ret = "true"

\* C2: an Initial run that finds the profile row always begins the fetch,
\* whatever the stored timestamp and however recent the last write.
C2_InitialBypass ==
    (StartOf("initial") /\ last.seen = "row") =>
        /\ last.d = "fetch"
        /\ runs[last.run].fetched
        /\ runs[last.run].pc = "fetching"

\* an Initial run found an empty github_repos list and a null timestamp, and
\* began the fetch
C2_Witness ==
    /\ StartOf("initial")
    /\ last.seen = "row"
    /\ last.seenTs = NULL
    /\ last.seenFalsy /\ ~last.seenNull
    /\ last.d = "fetch"

\* C3: an Initial run for a user id without a profile row returns false,
\* issues no GitHub request and writes nothing.
C3_MissingProfile ==
    /\ NoWriteWithoutFetch
    /\ (StartOf("initial") /\ ~profiles[runs[last.run].user].exists) =>
          /\ last.d = "fail"
          /\ runs[last.run].pc = "done"
          /\ runs[last.run].ret = "false"
          /\ ~runs[last.run].fetched
          /\ runs[last.run].wrote = "none"
          /\ profiles[runs[last.run].user] = NoRow

\* the existence check of an Initial run came back with no row
C3_Witness ==
    /\ StartOf("initial")
    /\ last.seen = "norow"
    /\ last.d = "fail"
    /\ runs[last.run].ret = "false"

\* C4 as stated: a Regular run that finds the profile row begins a fetch at
\* least 24 hours after the latest fetch begun by a Regular run since the
\* last applied forced clear.
C4_AnyTwoFetches ==
    (StartOf("regular") /\ last.d = "fetch" /\ last.seen = "row"
                        /\ last.prevFetch # Never) =>
        last.at - last.prevFetch >= ThrottleSeconds

\* C4 as amended: a Regular run that reads the profile after an earlier
\* Regular run has written it (no applied forced clear in between) begins
\* its fetch at least 24 hours after that earlier run began its own.
C4_FetchesAfterWrite ==
    (StartOf("regular") /\ last.d = "fetch" /\ last.prevWrite # Never) =>
        last.at - last.prevWrite >= ThrottleSeconds

\* a Regular run fetched again after an earlier Regular run's write
C4_Witness ==
    /\ StartOf("regular")
    /\ last.d = "fetch"
    /\ last.seen = "row"
    /\ last.prevWrite # Never
    /\ last.at - last.prevWrite >= ThrottleSeconds

\* C5: after a forced refresh has cleared github_repos_updated_at, the
\* Regular run of that request reads no timestamp and begins the fetch.
C5_ForcedRefresh ==
    (StartOf("regular") /\ last.origin = "refresh" /\ last.forced /\ last.seen # "none") =>
        /\ last.seenTs = NULL
        /\ last.d = "fetch"
        /\ runs[last.run].fetched

\* a forced refresh fetched although the timestamp it cleared was less than
\* 24 hours old
C5_Witness ==
    /\ StartOf("regular")
    /\ last.origin = "refresh"
    /\ last.forced
    /\ last.seen = "row"
    /\ last.hadTs # NULL
    /\ last.at - FromIsoTimestamp(last.hadTs) < ThrottleSeconds
    /\ last.d = "fetch"

\* C6: when the update trigger reads a stored profile, it starts the Initial
\* task if github_repos_updated_at is unset or github_repos is empty or
\* null (either alone suffices), and the Regular task only if the timestamp
\* is set and the list is non-empty; the task it creates is the one chosen.
C6_TriggerChoice ==
    (last.ev = "trigger" /\ last.seen = "row") =>
        /\ (last.seenTs = NULL \/ last.seenFalsy) => last.kind = "initial"
        /\ last.kind = "regular" => (last.seenTs # NULL /\ ~last.seenFalsy)
        /\ last.kind \in {"initial", "regular"}
        /\ runs[last.run].kind = last.kind
        /\ runs[last.run].origin = "trigger"

\* the trigger started Initial for a row whose timestamp is set and whose
\* list is empty: the empty list alone suffices
C6_Witness ==
    /\ last.ev = "trigger"
    /\ last.seen = "row"
    /\ last.seenTs # NULL
    /\ last.seenFalsy
    /\ last.kind = "initial"

(* ---------------------- the aggregation run's claims ------------------ *)

\* the fetcher that is running, "" between calls
Running ==
    IF aggPc = "org_repos" THEN "organization"
    ELSE IF aggPc \in {"idle", "dedupe", "returned"} THEN "" ELSE aggPc

\* the fetchers that have been called and have returned
Finished == invoked \ {Running}

RequestsOf(cat) == {i \in 1..Len(requests) : requests[i].cat = cat}

IsPrefix(s, t) == Len(s) <= Len(t) /\ SubSeq(t, 1, Len(s)) = s

Names(repositories) == {repositories[i].full_name : i \in 1..Len(repositories)}

\* the three lists as the fetchers left them, each deduplicated
Deduplicated ==
    [owned |-> Deduplicate(owned_repositories),
     collab |-> Deduplicate(collaborator_repositories),
     other |-> Deduplicate(other_repositories)]

ResultBucket(cat) ==
    CASE cat = "owned" -> result.owned
      [] cat = "other" -> result.other
      [] OTHER -> result.collab

\* C7: the fetchers run one after another in the order Owned, Contributed,
\* Collaborator, Organization, Other: whenever a fetcher has issued a
\* request, every fetcher before it has been called and has returned, and
\* issues no request afterwards. A token is available exactly when one was
\* passed in or GITHUB_TOKEN is set; without one only Owned and Contributed
\* are called and Collaborator, Organization and Other issue no request.
C7_FetcherOrder ==
    /\ \A i, j \in 1..Len(requests) :
          i < j => Order(requests[i].cat) <= Order(requests[j].cat)
    /\ \A i \in 1..Len(requests) :
          /\ requests[i].cat \in invoked
          /\ \A k \in 1..Len(Fetchers) :
                k < Order(requests[i].cat) => Fetchers[k] \in Finished
    /\ aggPc # "idle" =>
          /\ (github_token # NoToken) <=> (tokenArg # NoToken \/ envToken # NoToken)
          /\ invoked \subseteq Due(github_token)
          /\ github_token = NoToken =>
                /\ RequestsOf("collaborator") = {}
                /\ RequestsOf("organization") = {}
                /\ RequestsOf("other") = {}

\* a run whose only token is GITHUB_TOKEN has returned after requests of all
\* five fetchers
C7_Witness ==
    /\ aggPc = "returned"
    /\ tokenArg = NoToken
    /\ github_token # NoToken
    /\ \A k \in 1..Len(Fetchers) : RequestsOf(Fetchers[k]) # {}
    /\ requests[Len(requests)].cat = "other"

\* C8: an exception inside a category fetcher does not leave it: the records
\* the fetcher had appended stay in its list, the fetchers after it are
\* still called, and the run returns the three deduplicated lists, with
\* those records among them.
C8_FetcherExceptionContained ==
    raised.cat # "" =>
        /\ escaped # "fetcher"
        /\ IsPrefix(raised.kept, Bucket(raised.cat))
        /\ Running # raised.cat
        /\ \A k \in 1..Len(Fetchers) :
              (Fetchers[k] \in Due(github_token) /\ k > Order(raised.cat)
                  /\ (aggPc \in {"dedupe", "returned"} \/ k <= Order(Running)))
              => Fetchers[k] \in invoked
        /\ (aggPc = "returned" /\ escaped = "none") =>
              /\ result = Deduplicated
              /\ Names(raised.kept) \subseteq Names(ResultBucket(raised.cat))

\* the owned fetcher raised on the second record of a page; the run returned
\* with the first record in the owned list, after calling all five fetchers
C8_Witness ==
    /\ aggPc = "returned"
    /\ escaped = "none"
    /\ raised.cat = "owned"
    /\ raised.kept = <<RecA>>
    /\ invoked = Due("arg-token")
    /\ result.owned = <<RecA>>
    /\ result.collab # <<>>

\* C9: when the first page request of the owned fetcher is answered 403, the
\* owned fetcher issues no further request and its list stays empty, the
\* contributed fetcher and (with a token) the later fetchers are still
\* called, and the run returns with an empty owned list.
C9_OwnedRateLimited ==
    owned403 =>
        /\ owned_repositories = <<>>
        /\ Cardinality(RequestsOf("owned")) = 1
        /\ escaped # "fetcher"
        /\ "owned" \in Finished
        /\ "contributed" \in invoked
        /\ aggPc \in {"dedupe", "returned"} => invoked = Due(github_token)
        /\ aggPc = "returned" => result.owned = <<>>

\* after a 403 on the first owned page the run returned with records of the
\* later fetchers
C9_Witness ==
    /\ owned403
    /\ aggPc = "returned"
    /\ github_token # NoToken
    /\ \A k \in 2..Len(Fetchers) : RequestsOf(Fetchers[k]) # {}
    /\ result.owned = <<>>
    /\ result.collab # <<>>
    /\ result.other # <<>>

\* C10: fetch_user_repositories returns in every case: when an exception
\* reaches its handler (from the session set-up or from a deduplication) the
\* result is three empty lists whatever the lists hold, and otherwise it is
\* the three deduplicated lists.
C10_NeverRaises ==
    /\ escaped # "none" => aggPc = "returned"
    /\ aggPc = "returned" =>
          IF escaped # "none" THEN result = EmptyResult ELSE result = Deduplicated

\* the sort of the second list raised after the owned list had been filled
\* and deduplicated, and the run returned three empty lists
C10_Witness ==
    /\ aggPc = "returned"
    /\ escaped = "dedupe"
    /\ owned_repositories # <<>>
    /\ ~SortRaises(owned_repositories)
    /\ SortRaises(collaborator_repositories)
    /\ result = EmptyResult

(* ------------------------ the result's buckets ------------------------ *)

Relationships(repositories) == {repositories[i].relationship : i \in 1..Len(repositories)}

\* C11 as stated: in a run with no token every record of the result's
\* collaborator-like list is a fork upstream (relationship base_of_fork).
C11_OnlyForkUpstreams ==
    (aggPc = "returned" /\ github_token = NoToken) =>
        Relationships(result.collab) \subseteq {"base_of_fork"}

\* C11 as amended: in a run with no token the collaborator-like list, while
\* it is filled and in the result, holds only records of the contributed
\* fetcher (relationship contributor or owner): never a collaborator,
\* organization_member, starred or fork-upstream record. The fork upstreams
\* the owned fetcher injects are in the owned list.
C11_NoTokenCollaboratorLike ==
    (aggPc # "idle" /\ github_token = NoToken) =>
        /\ Relationships(collaborator_repositories) \subseteq {"contributor", "owner"}
        /\ Relationships(result.collab) \subseteq {"contributor", "owner"}
        /\ other_repositories = <<>>
        /\ result.other = <<>>
        /\ Relationships(owned_repositories) \subseteq {"", "base_of_fork"}

\* a run with no token returned a contributor record in the collaborator-like
\* list and a fork upstream in the owned list
C11_Witness ==
    /\ aggPc = "returned"
    /\ github_token = NoToken
    /\ escaped = "none"
    /\ "contributor" \in Relationships(result.collab)
    /\ "base_of_fork" \in Relationships(result.owned)

(* ------------------------ the deduplicator's claims ------------------- *)

\* the call has returned (a second call may have followed)
DedupReturned == dedupPc \in {"returned", "twice"}

Distinct(repositories) ==
    \A i, j \in 1..Len(repositories) :
        i # j => repositories[i].full_name # repositories[j].full_name

\* C12: the list _deduplicate_repos returns holds no two records with the
\* same full_name, and holds a record for every full_name of its input.
C12_DedupUnique ==
    /\ DedupReturned =>
          /\ Distinct(unique_repos)
          /\ Names(unique_repos) = Names(xs0)
    /\ dedupPc = "twice" => Distinct(twice)

\* a list of three records with two names came back as two records
C12_Witness ==
    /\ dedupPc = "returned"
    /\ Len(xs0) = 3
    /\ Cardinality(Names(xs0)) = 2
    /\ Len(unique_repos) = 2

\* C13: in the returned list, of any two records the earlier one has more
\* stars, or the same stars and an updated_at that is not older.
C13_RankingOrder ==
    DedupReturned =>
        \A i, j \in 1..Len(unique_repos) :
            i < j =>
                \/ unique_repos[i].stars > unique_repos[j].stars
                \/ /\ unique_repos[i].stars = unique_repos[j].stars
                   /\ unique_repos[i].updated_at >= unique_repos[j].updated_at

\* a list given in ascending order of stars came back in descending order
C13_Witness ==
    /\ dedupPc = "returned"
    /\ Len(xs0) = 3
    /\ xs0[1].stars < xs0[2].stars
    /\ xs0[2].updated_at < xs0[3].updated_at
    /\ Len(unique_repos) = 2
    /\ unique_repos[1].stars > unique_repos[2].stars

\* C14: deduplicating the returned list again returns the same records in
\* the same order.
C14_DedupIdempotent ==
    dedupPc = "twice" =>
        /\ twice = Deduplicate(xs0)
        /\ twice = unique_repos

\* the second call returned the two records of the first, whose keys are
\* equal, in the same order, for an input that held three
C14_Witness ==
    /\ dedupPc = "twice"
    /\ Len(xs0) = 3
    /\ Len(twice) = 2
    /\ twice[1].stars = twice[2].stars
    /\ twice[1].updated_at = twice[2].updated_at
    /\ twice = unique_repos

\* C15 as stated: after the call the caller's list holds the same records in
\* the same order as before.
C15_InputUnchanged ==
    dedupPc = "returned" => xs = xs0

\* the call returned and left the caller's list in another order
C15_Witness ==
    /\ dedupPc = "returned"
    /\ xs # xs0
    /\ xs = Sorted(xs0)

\* C16 as stated: no full_name is in more than one of the three lists a run
\* returns.
C16_BucketsDisjoint ==
    aggPc = "returned" =>
        /\ Names(result.owned) \cap Names(result.collab) = {}
        /\ Names(result.owned) \cap Names(result.other) = {}
        /\ Names(result.collab) \cap Names(result.other) = {}

\* a run with no token returned the user's repository octocat/a in the owned
\* list and, from a push event, in the collaborator-like list
C16_Witness ==
    /\ aggPc = "returned"
    /\ escaped = "none"
    /\ github_token = NoToken
    /\ "octocat/a" \in Names(result.owned) \cap Names(result.collab)
    /\ \E i \in 1..Len(result.collab) :
          /\ result.collab[i].full_name = "octocat/a"
          /\ result.collab[i].relationship = "owner"

(* ------------------------ the fork resolver's claims ------------------ *)

\* how many records of the list have this full_name and one of these
\* relationships
Count(repositories, name, rels) ==
    Cardinality({i \in 1..Len(repositories) :
                    /\ repositories[i].full_name = name
                    /\ repositories[i].relationship \in rels})

\* the forks a fetcher has appended; in the listings of the model the
\* upstream of every fork is obtained, embedded or by the detail lookup
ForksIn(repositories, rels) ==
    {i \in 1..Len(repositories) :
        repositories[i].is_fork /\ repositories[i].relationship \in rels}

Returned == last.ev = "return"

\* the profile of the user of the run of the latest step
ProfileOfLast == profiles[runs[last.run].user]

\* C18: a run whose write is stored replaces the snapshot: github_repos and
\* github_collaborator_repos are exactly the owned and collaborator lists the
\* aggregation returned to this run, an empty list included, and both
\* updated-at timestamps and github_username are set by the same write.
C18_SnapshotReplaced ==
    (Returned /\ last.stored) =>
        /\ ProfileOfLast.github_repos = JList(last.result.owned)
        /\ ProfileOfLast.github_collaborator_repos = JList(last.result.collab)
        /\ ProfileOfLast.github_repos_updated_at = IsoFormatNow(last.at)
        /\ ProfileOfLast.github_collaborator_repos_updated_at = IsoFormatNow(last.at)
        /\ ProfileOfLast.github_username = Username

\* a run came to write while github_repos held a record; the aggregation had
\* returned an empty owned list, and the stored list is now empty
C18_Witness ==
    /\ Returned
    /\ last.stored
    /\ last.hadRepos
    /\ last.agg = "returned"
    /\ last.result.owned = <<>>
    /\ ProfileOfLast.github_repos = JList(<<>>)
    /\ ProfileOfLast.github_username = Username

\* the latest step ended a run: its write and return, or an early return of
\* its first stretch
RunEnded ==
    \/ Returned
    \/ last.ev = "start" /\ runs[last.run].pc = "done"

\* the run that ended with the latest step met a failure: the store was not
\* reachable or the profile missing at its start, the aggregation raised, or
\* the write reported an error, raised or found no row
RunFailed ==
    \/ last.ev = "start" /\ last.d = "fail"
    \/ Returned /\ last.agg = "raised"
    \/ Returned /\ last.w \in {"error", "raise", "norow"}

\* C19: a run that met a failure at any layer (aggregation exception,
\* persistence error, missing profile) has performed no update: the request
\* and its run have left every field of the stored profile as it was.
C19_NoUpdateOnFailure == (RunEnded /\ RunFailed) => ~last.changed

\* the aggregation of a run raised and handed back three empty lists; the
\* run wrote them over a stored record and returned true
C19_Witness ==
    /\ Returned
    /\ last.agg = "raised"
    /\ last.stored
    /\ last.hadRepos
    /\ last.changed
    /\ ProfileOfLast.github_repos = JList(<<>>)
    /\ ProfileOfLast.github_repos_updated_at = IsoFormatNow(last.at)
    /\ runs[last.run].ret = "true"

\* C20: neither scheduler method raises; each run ends with true or false. A
\* write that reports an error object or raises, and a store that is not
\* configured, make the run return false; a run returns true only after a
\* throttled skip or after a write that reported no error.
C20_ReturnsBoolean ==
    /\ \A id \in 1..Len(runs) :
          /\ runs[id].ret \in {"pending", "true", "false"}
          /\ runs[id].pc = "done" <=> runs[id].ret # "pending"
          /\ (~configured /\ runs[id].pc = "done") =>
                runs[id].ret = "false" /\ ~runs[id].fetched
          /\ (runs[id].ret = "true" /\ ~runs[id].fetched) => runs[id].kind = "regular"
          /\ (runs[id].ret = "true" /\ runs[id].fetched) => runs[id].wrote # "none"
    /\ Returned =>
          /\ last.w \in {"ok", "norow", "error", "raise"}
          /\ last.w \in {"error", "raise"} =>
                runs[last.run].ret = "false" /\ ~last.stored
          /\ runs[last.run].ret = "true" <=> last.w \in {"ok", "norow"}
    /\ (last.ev = "start" /\ runs[last.run].pc = "done") =>
          /\ last.d \in {"skip", "fail"}
          /\ runs[last.run].ret = "true" <=> last.d = "skip"
          /\ last.d = "skip" =>
                last.seenTs # NULL /\ Throttled(last.at, last.seenTs)

\* the write of an Initial run answered with an error object; the run
\* returned false and stored nothing
C20_Witness ==
    /\ Returned
    /\ last.kind = "initial"
    /\ last.w = "error"
    /\ ~last.stored
    /\ runs[last.run].pc = "done"
    /\ runs[last.run].ret = "false"

(* ------------------ the background tasks and the handlers ------------- *)

\* C21: a background task calls its scheduler method exactly once: a task
\* that has got the event loop has made one call, whatever the call returned,
\* a task that has finished holds the value of that one call, and no task
\* makes a second call.
C21_TaskRunsOnce ==
    \A id \in 1..Len(runs) :
        /\ runs[id].calls <= 1
        /\ runs[id].pc = "created" <=> runs[id].calls = 0
        /\ runs[id].pc = "created" => runs[id].ret = "pending" /\ ~runs[id].fetched
        /\ runs[id].pc = "done" => runs[id].ret \in {"true", "false"}

\* two background tasks have finished, the scheduler method of one returned
\* false and that of the other true, each after one call
C21_Witness ==
    /\ Len(runs) = 2
    /\ \A id \in 1..2 : runs[id].origin # "refresh" /\ runs[id].pc = "done"
                        /\ runs[id].calls = 1
    /\ runs[1].ret = "false"
    /\ runs[2].ret = "true"
    /\ nreq = MaxRequests

\* C22 as stated: the update trigger answers every request with "started",
\* also when the profile store cannot be read.
C22_AlwaysStarted ==
    (last.origin = "trigger" /\ last.ev \in {"trigger", "reject"}) =>
        last.answer = "started"

\* C22: the update trigger answers "started" and creates one task whenever
\* its profile read answers, with a row or without one; when the store is
\* not configured or the read raises it answers HTTP 500 and creates no task.
C22_StartedWhenRead ==
    /\ last.ev = "trigger" =>
          /\ last.answer = "started"
          /\ last.seen \in {"row", "norow"}
          /\ configured
          /\ last.run = Len(runs)
          /\ runs[last.run].pc = "created"
    /\ (last.ev = "reject" /\ last.origin = "trigger") =>
          last.answer = "500" /\ last.run = 0
    /\ ~configured => \A id \in 1..Len(runs) : runs[id].origin # "trigger"

\* the profile read of the update trigger found no row; the trigger created
\* a Regular task and answered "started"
C22_Witness ==
    /\ last.ev = "trigger"
    /\ last.seen = "norow"
    /\ last.kind = "regular"
    /\ last.answer = "started"
    /\ runs[last.run].pc = "created"

\* C23 as stated: every operation answers its caller without waiting for
\* the run: the request step that starts the run of a forced update carries
\* the handler's answer, and no answer is given at the return of a run.
C23_FireAndForget ==
    /\ (last.ev = "start" /\ last.origin = "refresh" /\ last.forced) =>
          last.answer # "none"
    /\ (last.ev = "trigger") =>
          last.answer = "started" /\ runs[last.run].pc = "created"
    /\ Returned => last.answer = "none"

\* C23: the update trigger (initial and throttled update) answers before
\* the run of its task has begun and gives no answer when the run returns;
\* the refresh handler answers only when its run has returned, "completed"
\* after true and HTTP 500 after false.
C23_OnlyTriggerFireAndForget ==
    /\ last.ev = "trigger" =>
          /\ last.answer = "started"
          /\ runs[last.run].pc = "created"
          /\ runs[last.run].ret = "pending"
    /\ (Returned /\ last.origin # "refresh") => last.answer = "none"
    /\ (last.ev = "start" /\ last.origin # "refresh") => last.answer = "none"
    /\ (last.ev = "start" /\ last.origin = "refresh") =>
          /\ last.answer = "none" <=> runs[last.run].pc = "fetching"
          /\ last.answer = "completed" <=> runs[last.run].ret = "true"
          /\ last.answer = "500" <=> runs[last.run].ret = "false"
    /\ (Returned /\ last.origin = "refresh") =>
          /\ last.answer = "completed" <=> runs[last.run].ret = "true"
          /\ last.answer = "500" <=> runs[last.run].ret = "false"

\* the run of a refresh request has written and returned false, and only now
\* has the handler answered, with HTTP 500
C23_Witness ==
    /\ Returned
    /\ last.origin = "refresh"
    /\ last.w = "error"
    /\ runs[last.run].ret = "false"
    /\ last.answer = "500"

(* --------------------------- the snapshot read ------------------------ *)

\* the latest step is a snapshot read
ReadStep == last.ev = "read"

\* C24: a snapshot read that finds the row of a profile some run has written
\* returns the three buckets of the run that wrote last, its other bucket
\* included; for a missing profile or a store error it returns three empty
\* lists.
C24_ReadReturnsLastResult ==
    ReadStep =>
        IF last.seen = "row" /\ written.any
        THEN /\ last.read.owned = JList(written.result.owned)
             /\ last.read.collab = JList(written.result.collab)
             /\ last.read.other = JList(written.result.other)
        ELSE last.seen # "row" => last.read = NoRepos

\* a run stored a result with a starred repository in its other bucket, and
\* the snapshot read that followed returned the owned and the collaborator
\* list of that run and an empty third list
C24_Witness ==
    /\ ReadStep
    /\ last.seen = "row"
    /\ written.any
    /\ written.result.other = <<RecS>>
    /\ last.read.owned = JList(written.result.owned)
    /\ last.read.collab = JList(written.result.collab)
    /\ last.read.other = JList(<<>>)

(* ------------------- who changes the persisted fields ----------------- *)

\* the step just taken is the stored write of a run that had fetched
WriteStep ==
    /\ last'.ev = "return"
    /\ last'.stored
    /\ runs[last'.run].pc = "fetching"

\* C25 as stated: the persisted refresh fields of a profile are changed only
\* by the write of a run that has completed its aggregation.
C25_OnlyWriteChanges ==
    [][\A u \in Users : profiles'[u] # profiles[u] => WriteStep]_vars

\* C25: the persisted refresh fields of a profile are changed only by the
\* stored write of a run that has completed its aggregation and by the forced
\* refresh request, which sets github_repos_updated_at to null and leaves the
\* other fields alone; a skip, a failed run and a snapshot read change none.
C25_WriteOrForcedClear ==
    [][\A u \in Users :
          profiles'[u] # profiles[u] =>
              \/ WriteStep
              \/ /\ last'.ev = "start"
                 /\ last'.origin = "refresh"
                 /\ last'.forced
                 /\ profiles[u].github_repos_updated_at # NULL
                 /\ profiles'[u] = [profiles[u] EXCEPT !.github_repos_updated_at = NULL]]_vars

\* a forced refresh request has set a stored timestamp to null and its run
\* then returned without a write: the throttle read raised
C25_Witness ==
    /\ last.ev = "start"
    /\ last.origin = "refresh"
    /\ last.forced
    /\ last.hadTs # NULL
    /\ last.d = "fail"
    /\ ProfileOfLast.github_repos_updated_at = NULL
    /\ ProfileOfLast.github_collaborator_repos_updated_at # NULL
    /\ runs[last.run].wrote = "none"

(* ----------------------------- concurrent runs ------------------------ *)

\* C26: in every reachable state the two persisted lists of a profile come
\* from one and the same run, the run whose write was stored last: however
\* the runs of a user interleave, github_repos and github_collaborator_repos
\* are the owned and the collaborator list handed to that run.
C26_LastWriterWins ==
    \A u \in Users :
        (written.any /\ profiles[u].exists) =>
            /\ profiles[u].github_repos = JList(written.result.owned)
            /\ profiles[u].github_collaborator_repos = JList(written.result.collab)

\* two runs fetched at the same time; one wrote two filled lists while the
\* other was still fetching, then the other wrote two empty lists: both have
\* finished and both persisted lists are empty
C26_Witness ==
    /\ Returned
    /\ last.stored
    /\ last.raced
    /\ last.hadRepos
    /\ Len(runs) = 2
    /\ \A id \in 1..2 : runs[id].pc = "done" /\ runs[id].wrote = "ok"
    /\ last.result = EmptyResult
    /\ ProfileOfLast.github_repos = JList(<<>>)
    /\ ProfileOfLast.github_collaborator_repos = JList(<<>>)

(* ----------------------- item caps and page caps ---------------------- *)

\* the page loop of this fetcher has ended
LoopDone(cat) == loopPc = "done" /\ loopCat = cat

\* C27: when the owned fetcher has finished its list holds at most 100
\* records, the contributed fetcher has looked up at most 50 repositories,
\* and when the other fetcher has finished its list holds at most 30 records.
C27_ItemCaps ==
    /\ LoopDone("owned") => loopLen <= OwnedLimit
    /\ loopCat = "contributed" => loopLen <= ContributedLimit
    /\ LoopDone("other") => loopLen <= OtherLimit

\* the owned fetcher has finished after four full pages without a fork: its
\* list holds 120 records
C27_Witness ==
    /\ LoopDone("owned")
    /\ loopReqs = 4
    /\ loopLen = 4 * PerPage
    /\ loopLen > OwnedLimit

\* C28: the contributed fetcher requests at most 3 event pages, the
\* collaborator fetcher at most 5 pages, the other fetcher at most 3 pages,
\* and the organization fetcher lists at most the first 10 organizations
\* with at most 3 pages each.
C28_PageCaps ==
    /\ loopCat = "contributed" => loopReqs <= ContributedPageLimit
    /\ loopCat = "collaborator" => loopReqs <= CollaboratorPageLimit
    /\ loopCat = "other" => loopReqs <= OtherPageLimit
    /\ loopCat = "organization" =>
          /\ loopReqs <= OrganizationPageLimit
          /\ loopOrg <= OrgLimit
          /\ loopOrg <= loopOrgs
    /\ loopCat # "owned" => loopReqs = loopPage - 1 \/ loopPc = "done"

\* GET /user/orgs listed eleven organizations; the fetcher has requested
\* three pages of the tenth and has finished
C28_Witness ==
    /\ LoopDone("organization")
    /\ loopOrgs = OrgLimit + 1
    /\ loopOrg = OrgLimit
    /\ loopReqs = OrganizationPageLimit

(* --------------------- page requests and lookups ---------------------- *)

\* the listing requests of the history, by position
PageRequests == {i \in 1..Len(requests) : requests[i].kind = "page"}

\* request i brought no page: a status other than 200 or an empty page (or
\* a transport error)
Stopped(i) == i \in PageRequests /\ requests[i].ans = "stop"

\* the step issued a listing request that brought no page
StoppedStep ==
    /\ Len(requests') = Len(requests) + 1
    /\ requests'[Len(requests')].kind = "page"
    /\ requests'[Len(requests')].ans = "stop"

\* no step takes a record out of a list, and a page that stops its loop
\* leaves the three lists as they were
KeepsRecords ==
    /\ IsPrefix(owned_repositories, owned_repositories')
    /\ IsPrefix(collaborator_repositories, collaborator_repositories')
    /\ IsPrefix(other_repositories, other_repositories')
    /\ StoppedStep => UNCHANGED <<owned_repositories, collaborator_repositories,
                                  other_repositories>>

\* the requests the step adds to the history, by position
NewRequests == (Len(requests) + 1)..Len(requests')

\* the listing requests before position j that belong to the category of
\* request j
EarlierOfCategory(j) ==
    {i \in 1..(j - 1) : requests'[i].kind = "page" /\ requests'[i].cat = requests'[j].cat}

\* those of the listing of request j: its category, and for the
\* organization fetcher its organization
EarlierOfListing(j) == {i \in EarlierOfCategory(j) : requests'[i].org = requests'[j].org}

\* C29 as stated: within a run no (category, page) request is issued twice,
\* after a page request of a category is answered by a status other than 200
\* or by an empty page that category issues no further request, and the
\* records accumulated before remain in the list.
C29_FailedPageEndsCategory ==
    [][/\ \A j \in NewRequests : \A i \in EarlierOfCategory(j) :
             /\ requests'[j].kind = "page" => requests'[j].page # requests'[i].page
             /\ requests'[i].ans # "stop"
       /\ KeepsRecords]_vars

\* C29: within a run no page of a listing is requested twice (a listing is
\* a category, and for the organization fetcher one organization), after a
\* page request is answered by a status other than 200 or by an empty page
\* its listing issues no further request, the only request its category
\* still issues is the first page of the organization fetcher's next
\* organization and what follows it, and the records accumulated before
\* remain in the list.
C29_FailedPageEndsListing ==
    [][/\ \A j \in NewRequests :
             /\ \A i \in EarlierOfListing(j) :
                   /\ requests'[j].kind = "page" => requests'[j].page # requests'[i].page
                   /\ requests'[i].ans # "stop"
             /\ \A i \in EarlierOfCategory(j) :
                   requests'[i].ans = "stop" =>
                       /\ requests'[j].cat = "organization"
                       /\ requests'[j].kind = "page"
                       /\ requests'[j].org # requests'[i].org
       /\ KeepsRecords]_vars

\* the first page of organization acme brought a record, its second page
\* stopped the loop, the first page of organization beta was requested
\* after it, and the record of acme is still in the list when the run returns
C29_Witness ==
    /\ aggPc = "returned"
    /\ \E i \in PageRequests :
          /\ i + 2 <= Len(requests)
          /\ requests[i].org = "acme" /\ requests[i].page = 1 /\ requests[i].ans = "ok"
          /\ requests[i + 1].org = "acme" /\ requests[i + 1].page = 2 /\ Stopped(i + 1)
          /\ requests[i + 2].org = "beta" /\ requests[i + 2].page = 1
    /\ \E k \in 1..Len(collaborator_repositories) :
          collaborator_repositories[k].full_name = "acme/o"

\* the forks of the listings
Forks == {RawF, RawG, RawCF, RawCG}

\* the detail requests a fetcher has issued for this repository
DetailRequests(cat, name) ==
    Cardinality({i \in 1..Len(requests) :
                    /\ requests[i].kind = "detail"
                    /\ requests[i].cat = cat
                    /\ requests[i].name = name})

\* the relationship of the records a fetcher appends for the repositories
\* of its pages (the owned fetcher sets none)
Listed(cat) == IF cat = "owned" THEN {""} ELSE {"owner", "collaborator"}

\* The lookup rule in fetcher cat: a fork whose page record embeds its
\* source is appended without a detail request and its upstream is in the
\* list; a fork without it costs one detail request each time it is appended.
LookupRule(cat) ==
    \A raw \in Forks :
        LET times == Count(Bucket(cat), raw.full_name, Listed(cat))
        IN IF raw.source # ""
           THEN /\ DetailRequests(cat, raw.full_name) = 0
                /\ times > 0 =>
                      Count(Bucket(cat), raw.source,
                            {"base_of_fork", "base_of_collaborator_fork"}) = 1
           ELSE DetailRequests(cat, raw.full_name) = times

\* the rule in the owned fetcher alone
OwnedLookupRule == LookupRule("owned")

\* C30 as stated: in the owned and in the collaborator fetcher, a fork whose
\* page record embeds its source information causes no repository-detail
\* request and the embedded information is used, and a fork without it
\* causes exactly one repository-detail request.
C30_LookupRule == LookupRule("owned") /\ LookupRule("collaborator")

\* the collaborator fetcher has appended a fork whose page record embeds
\* its source, and has issued a detail request for it
C30_Witness ==
    /\ RawCG.fork /\ RawCG.source # ""
    /\ Count(collaborator_repositories, RawCG.full_name, Listed("collaborator")) = 1
    /\ DetailRequests("collaborator", RawCG.full_name) = 1

(* -------------------- the fetchers, item by item ----------------------- *)

\* the items the fetcher has handled so far (no item of the owned and of the
\* collaborator pages raises)
Handled ==
    CASE itemPc = "first" -> <<>>
      [] itemPc = "second" -> itemPages[1]
      [] OTHER -> itemPages[1] \o itemPages[2]

BaseRelationships == {"base_of_fork", "base_of_collaborator_fork"}

\* positions of the synthesized upstream records in the fetcher's list
Upstreams == {k \in 1..Len(itemSt.bucket) : itemSt.bucket[k].relationship \in BaseRelationships}

\* the fork's upstream was obtained: embedded in the page record (owned
\* fetcher) or from a detail lookup that answered with a source
Resolved(cat, raw) ==
    raw.fork /\ ((cat = "owned" /\ raw.source # "") \/ HasSource(raw.detail))

\* the list without the upstream records: what the fetcher appended for the
\* repositories of its pages
RECURSIVE Listing(_)
Listing(repositories) ==
    IF repositories = <<>> THEN <<>>
    ELSE IF Head(repositories).relationship \in BaseRelationships
    THEN Listing(Tail(repositories))
    ELSE <<Head(repositories)>> \o Listing(Tail(repositories))

\* C31: every synthesized upstream record has is_owner false and
\* is_collaborator true, relationship base_of_fork in the owned fetcher and
\* base_of_collaborator_fork in the collaborator fetcher, and stands in the
\* fetcher's own list behind a fork it was obtained for; every fork handled
\* is in the list whether or not its lookup failed, and forks whose lookup
\* failed add no upstream record.
C31_UpstreamRecords ==
    itemCat \in {"owned", "collaborator"} =>
        /\ \A k \in Upstreams :
              /\ itemSt.bucket[k].is_owner = FALSE
              /\ itemSt.bucket[k].is_collaborator = TRUE
              /\ itemSt.bucket[k].relationship =
                    IF itemCat = "owned" THEN "base_of_fork" ELSE "base_of_collaborator_fork"
              /\ \E j \in 1..(k - 1) : \E i \in 1..Len(Handled) :
                    /\ itemSt.bucket[j].full_name = Handled[i].full_name
                    /\ itemSt.bucket[j].is_fork
                    /\ Resolved(itemCat, Handled[i])
                    /\ itemSt.bucket[k].full_name =
                          IF itemCat = "owned" /\ Handled[i].source # ""
                          THEN Handled[i].source ELSE Handled[i].detail
        /\ Listing(itemSt.bucket) =
              [i \in 1..Len(Handled) |->
                  IF itemCat = "owned" THEN OwnedRec(Handled[i])
                  ELSE CollaboratorRec(Handled[i])]
        /\ (\A i \in 1..Len(Handled) : ~Resolved(itemCat, Handled[i])) => Upstreams = {}

\* the collaborator fetcher has listed a fork whose lookup failed and then a
\* fork whose lookup named up/x: both forks are in the list, followed by
\* the one upstream record
C31_Witness ==
    /\ itemPc = "done"
    /\ itemCat = "collaborator"
    /\ itemPages = << <<RawCH>>, <<RawCF>> >>
    /\ itemSt.bucket = <<CollaboratorRec(RawCH), CollaboratorRec(RawCF),
                         Rec(RawX, FALSE, TRUE, "base_of_collaborator_fork")>>

\* the events handled so far that contribute: one of the four types, with a
\* repository
Contributing ==
    {i \in 1..Len(Handled) :
        /\ Handled[i].hasRepo
        /\ Handled[i].type \in {"PushEvent", "PullRequestEvent", "IssuesEvent", "CreateEvent"}}

\* the detail requests the fetcher has issued for this repository
LookupsOf(name) ==
    Cardinality({k \in 1..Len(itemSt.reqs) :
                    itemSt.reqs[k].kind = "detail" /\ itemSt.reqs[k].name = name})

RecordsOf(name) ==
    Cardinality({k \in 1..Len(itemSt.bucket) : itemSt.bucket[k].full_name = name})

\* C32: the contributed fetcher issues requests and adds records only for
\* the repositories of push, pull-request, issues and create events that
\* carry a repository; for each such repository name it issues exactly one
\* detail lookup, also when the name recurs on the second page or the lookup
\* failed; a failed lookup adds no record, any other adds one record, with
\* relationship owner and is_owner when the owner is the queried username,
\* contributor otherwise, and is_collaborator the negation of is_owner.
C32_ContributedRule ==
    itemCat = "contributed" =>
        /\ \A i \in Contributing :
              /\ LookupsOf(Handled[i].repo.full_name) = 1
              /\ RecordsOf(Handled[i].repo.full_name) =
                    IF Handled[i].repo.detail = "fail" THEN 0 ELSE 1
        /\ \A k \in 1..Len(itemSt.reqs) :
              /\ itemSt.reqs[k].kind = "detail"
              /\ \E i \in Contributing : Handled[i].repo.full_name = itemSt.reqs[k].name
        /\ \A k \in 1..Len(itemSt.bucket) :
              LET r == itemSt.bucket[k]
              IN /\ \E i \in Contributing : Handled[i].repo.full_name = r.full_name
                 /\ r.is_owner = (r.owner = Username)
                 /\ r.is_collaborator = ~r.is_owner
                 /\ r.relationship = IF r.owner = Username THEN "owner" ELSE "contributor"

\* the first events page named up/l, whose lookup failed, and the user's own
\* octocat/a; the second page named up/l again and up/x: three lookups were
\* issued, and the list holds octocat/a as owner and up/x as contributor
C32_Witness ==
    /\ itemPc = "done"
    /\ itemCat = "contributed"
    /\ itemPages = << <<Event("CreateEvent", TRUE, RawL), Event("PushEvent", TRUE, RawA)>>,
                      <<Event("CreateEvent", TRUE, RawL), Event("PullRequestEvent", TRUE, RawX)>> >>
    /\ Len(itemSt.reqs) = 3
    /\ LookupsOf("up/l") = 1
    /\ itemSt.bucket = <<ContributedRec(RawA), ContributedRec(RawX)>>

(* ------------------ records of other owners only ----------------------- *)

\* the records of the list with this relationship are not the user's own
NotOwn(repositories, rel) ==
    \A k \in 1..Len(repositories) :
        repositories[k].relationship = rel =>
            /\ repositories[k].owner # Username
            /\ repositories[k].is_owner = FALSE

\* every record of the list is a starred record
AllStarred(repositories) ==
    \A k \in 1..Len(repositories) :
        /\ repositories[k].relationship = "starred"
        /\ repositories[k].is_collaborator = FALSE

\* C33: every record of the other list, as the fetchers leave it and as the
\* run returns it, has an owner other than the queried username, is_owner
\* false, is_collaborator false and relationship starred; every
\* organization_member record of the collaborator list has an owner other
\* than the queried username and is_owner false.
C33_NotOwnRecords ==
    /\ AllStarred(other_repositories) /\ NotOwn(other_repositories, "starred")
    /\ AllStarred(result.other) /\ NotOwn(result.other, "starred")
    /\ NotOwn(collaborator_repositories, "organization_member")
    /\ NotOwn(result.collab, "organization_member")

\* the run has returned; the organization page listed acme/o and the user's
\* own octocat/a, the starred page star/s and octocat/a: the other list is
\* star/s alone and acme/o is the only organization_member record
C33_Witness ==
    /\ aggPc = "returned"
    /\ escaped = "none"
    /\ other_repositories = <<Rec(RawS, FALSE, FALSE, "starred")>>
    /\ result.other = other_repositories
    /\ Count(collaborator_repositories, "acme/o", {"organization_member"}) > 0
    /\ Count(collaborator_repositories, "octocat/a", {"organization_member"}) = 0

(* ------------------- which record the deduplicator keeps --------------- *)

SameKey(a, b) == a.stars = b.stars /\ a.updated_at = b.updated_at

\* the positions of the input that hold this full_name
PositionsOf(name) == {i \in 1..Len(xs0) : xs0[i].full_name = name}

\* among them, the first of those with the greatest (stars, updated_at)
Kept(name) ==
    CHOOSE i \in PositionsOf(name) :
        \A j \in PositionsOf(name) :
            /\ ~KeyBefore(xs0[j], xs0[i])
            /\ (SameKey(xs0[j], xs0[i]) => i <= j)

\* C34: for every full_name of the input, the returned list holds the input
\* record of that name with the greatest (stars, updated_at), and of several
\* such records the one that came first in the input; returned records of
\* different names with equal (stars, updated_at) stand in the order in which
\* they came in the input.
C34_KeepsBestFirst ==
    dedupPc = "returned" =>
        /\ \A name \in Names(xs0) :
              \E k \in 1..Len(unique_repos) : unique_repos[k] = xs0[Kept(name)]
        /\ Len(unique_repos) = Cardinality(Names(xs0))
        /\ \A a, b \in 1..Len(unique_repos) :
              (a < b /\ SameKey(unique_repos[a], unique_repos[b])) =>
                  Kept(unique_repos[a].full_name) < Kept(unique_repos[b].full_name)

\* the input held octocat/b, then two different records of octocat/a, all
\* three with one star and the same update time: the first record of
\* octocat/a was kept, behind octocat/b
C34_Witness ==
    /\ dedupPc = "returned"
    /\ Len(xs0) = 3
    /\ xs0[1].full_name = "octocat/b"
    /\ xs0[2].full_name = "octocat/a" /\ xs0[3].full_name = "octocat/a"
    /\ xs0[2] # xs0[3]
    /\ SameKey(xs0[1], xs0[2]) /\ SameKey(xs0[2], xs0[3])
    /\ unique_repos = <<xs0[1], xs0[2]>>

\* C35: the full_names of the returned list are those of the input, and
\* every returned record is a record of the input, with every field as it
\* was; the same holds for the second call on the returned list.
C35_NeitherLosesNorInvents ==
    /\ DedupReturned =>
          /\ {unique_repos[k].full_name : k \in 1..Len(unique_repos)}
                = {xs0[i].full_name : i \in 1..Len(xs0)}
          /\ \A k \in 1..Len(unique_repos) : \E i \in 1..Len(xs0) : unique_repos[k] = xs0[i]
    /\ dedupPc = "twice" =>
          /\ {twice[k].full_name : k \in 1..Len(twice)}
                = {xs0[i].full_name : i \in 1..Len(xs0)}
          /\ \A k \in 1..Len(twice) : \E i \in 1..Len(xs0) : twice[k] = xs0[i]

\* three records of two names went in, the last of them with the most
\* stars: two came back, the third input record first, then the first
C35_Witness ==
    /\ dedupPc = "returned"
    /\ Len(xs0) = 3
    /\ xs0[1].full_name # xs0[3].full_name
    /\ xs0[2].full_name = xs0[1].full_name
    /\ unique_repos = <<xs0[3], xs0[1]>>

(* ------------------------- users without a row ------------------------- *)

\* C36: an update trigger whose read finds no row for the user id chooses
\* the Regular task; a Regular run whose read finds no row goes on to the
\* aggregation fetch; when its write then matches no row and reports no
\* error the run returns True, nothing is stored and no profile exists; and
\* as long as rows are neither created nor deleted, no Initial run chosen by
\* the update trigger finds the profile missing.
C36_NoRowRunsRegular ==
    /\ (last.ev = "trigger" /\ last.seen = "norow") => last.kind = "regular"
    /\ (StartOf("regular") /\ last.seen = "norow") =>
          /\ last.d = "fetch"
          /\ runs[last.run].pc = "fetching"
    /\ (Returned /\ last.w = "norow") =>
          /\ runs[last.run].ret = "true"
          /\ ~last.stored
          /\ ~last.changed
          /\ ProfileOfLast = NoRow
    /\ (StartOf("initial") /\ last.origin = "trigger") => last.seen # "norow"

\* a Regular run started by the update trigger for a user id without a row
\* has fetched, written and returned True, and there is still no profile
C36_Witness ==
    /\ Returned
    /\ last.kind = "regular"
    /\ last.origin = "trigger"
    /\ last.w = "norow"
    /\ runs[last.run].ret = "true"
    /\ runs[last.run].fetched
    /\ ~ProfileOfLast.exists

\* C37: an update trigger that reads a row whose github_repos is an empty
\* list chooses the Initial task, however fresh github_repos_updated_at is,
\* and an Initial run chosen by the trigger that finds its row goes on to
\* the aggregation fetch without a look at the timestamp: after a stored
\* write of an empty owned list no update request is throttled.
C37_EmptyNeverThrottled ==
    /\ (last.ev = "trigger" /\ last.seen = "row" /\ last.seenFalsy) => last.kind = "initial"
    /\ (last.ev = "trigger" /\ last.seen = "row" /\ written.any
          /\ ProfileOfLast.github_repos = JList(<<>>)) => last.kind = "initial"
    /\ (StartOf("initial") /\ last.origin = "trigger" /\ last.seen = "row") =>
          /\ last.d = "fetch"
          /\ runs[last.run].pc = "fetching"

\* a run has stored an empty owned list; within the throttle window of its
\* timestamp a later update request chose the Initial task, and the run has
\* begun its fetch
C37_Witness ==
    /\ StartOf("initial")
    /\ last.origin = "trigger"
    /\ last.d = "fetch"
    /\ written.any /\ written.result.owned = <<>>
    /\ last.seenFalsy /\ ~last.seenNull
    /\ last.seenTs # NULL
    /\ Throttled(last.at, last.seenTs)

(* ---------------- the limits of the shared list, termination ----------- *)

\* the step issues a listing request
PageRequested == loopReqs' = loopReqs + 1

\* C38: the collaborator fetcher requests a page only while the list it was
\* handed, with the records the fetchers before it appended, holds fewer than
\* 50 records, and the organization fetcher only while that list holds fewer
\* than 100: a collaborator fetcher called with 50 or more records issues
\* no request, and no organization page is requested once the list holds 100.
C38_SharedListLimits ==
    [][PageRequested =>
          /\ loopCat = "collaborator" => loopLen < CollaboratorLimit
          /\ loopCat = "organization" => loopLen < OrganizationLimit]_vars

\* the collaborator fetcher was called with a list of 99 records and has
\* returned without a request
C38_Witness ==
    /\ LoopDone("collaborator")
    /\ loopLen >= CollaboratorLimit
    /\ loopLen = OrganizationLimit - 1
    /\ loopReqs = 0
    /\ loopPage = 1

\* what a step of a page loop achieves: the loop has ended, a page was
\* requested, or the organization fetcher has got its list or has gone on to
\* its next organization
Progress ==
    \/ loopPc' = "done"
    \/ loopReqs' = loopReqs + 1
    \/ loopOrg' = loopOrg + 1

\* C39: the loop of every fetcher ends after a bounded number of requests.
\* The owned fetcher, which has no page cap, issues at most 100 page
\* requests, because while it loops its list holds at least one record for
\* every page it has requested; the other fetchers issue at most as many page
\* requests as their page caps allow, the organization fetcher for at most
\* ten organizations; and every step of a loop ends it, requests a page or
\* moves to the next organization.
C39_BoundedRequests ==
    [][/\ Progress
       /\ loopCat' = "owned" =>
             /\ loopReqs' <= OwnedLimit
             /\ loopPc' = "loop" => loopLen' >= loopReqs'
       /\ loopCat' = "contributed" => loopReqs' <= ContributedPageLimit
       /\ loopCat' = "collaborator" => loopReqs' <= CollaboratorPageLimit
       /\ loopCat' = "organization" =>
             loopReqs' <= OrganizationPageLimit /\ loopOrg' <= OrgLimit
       /\ loopCat' = "other" => loopReqs' <= OtherPageLimit]_vars

\* the owned fetcher has requested one hundred pages, each with a single
\* repository, and has left its loop
C39_Witness ==
    /\ LoopDone("owned")
    /\ loopReqs = OwnedLimit
    /\ loopLen = OwnedLimit
    /\ loopPage = OwnedLimit + 1

====
